---- MODULE Spec2Model ----
(***************************************************************************)
(* Verification model of thin-edge.io (fork makr11st):                     *)
(*   - the Cumulocity converter and its alarm reconciler                   *)
(*     (crates/core/tedge_mapper/src/c8y/converter.rs),                    *)
(*   - the software-management agent and its operation journal             *)
(*     (sm/agent/src/agent.rs).                                            *)
(*                                                                         *)
(* Strings are the program's strings: topics and payloads are compared,    *)
(* concatenated and stripped of their prefix as the code does it.          *)
(***************************************************************************)
EXTENDS Integers, Sequences, FiniteSets, TLC

(***************************************************************************)
(* Program constants.                                                      *)
(***************************************************************************)
SMARTREST_PUBLISH_TOPIC == "c8y/s/us"
TEDGE_ALARMS_TOPIC == "tedge/alarms/"
INTERNAL_ALARMS_TOPIC == "c8y-internal/alarms/"
TEDGE_MEASUREMENTS_TOPIC == "tedge/measurements"
out_topic == "c8y/measurement/measurements/create"
errors_topic == "tedge/errors"
\* SizeThreshold(16 * 1024)
size_threshold == 16384

(***************************************************************************)
(* String helpers: str::starts_with and str::strip_prefix.                 *)
(***************************************************************************)
\* Option<T>
None == [some |-> FALSE]
Some(v) == [some |-> TRUE, val |-> v]

starts_with(s, p) ==
    /\ Len(s) >= Len(p)
    /\ SubSeq(s, 1, Len(p)) = p

strip_prefix(s, p) ==
    IF starts_with(s, p) THEN Some(SubSeq(s, Len(p) + 1, Len(s))) ELSE None

\* position of the first occurrence of the one-character string c in s at
\* or after position i, 0 when there is none
RECURSIVE find_from(_, _, _)
find_from(s, c, i) ==
    IF i > Len(s) THEN 0
    ELSE IF SubSeq(s, i, i) = c THEN i
    ELSE find_from(s, c, i + 1)

(***************************************************************************)
(* Messages: topic, payload bytes, retain flag.                            *)
(***************************************************************************)
\* Message::new(topic, payload): the retain flag is off
Message_new(topic, payload) ==
    [topic |-> topic, payload |-> payload, retain |-> FALSE]

\* Message::with_retain
with_retain(m) == [m EXCEPT !.retain = TRUE]

\* the 20 KiB packet of create_packet(1024 * 20): its 20480 bytes are
\* represented by one token
BigPayload == "Some data!Some data!"
BigPayloadLen == 20480

payload_len(p) == IF p = BigPayload THEN BigPayloadLen ELSE Len(p)

Panic == [kind |-> "panic"]
ok(msgs) == [kind |-> "ok", msgs |-> msgs]
err(e) == [kind |-> "err", err |-> e]

(***************************************************************************)
(* HashMap<String, Message>: a function from the keys present to messages. *)
(***************************************************************************)
HashMap_new == [k \in {} |-> None]

\* insert keeping the value the key already has
insert_keeps_first(map, key, value) ==
    [k \in (DOMAIN map) \cup {key} |-> IF k \in DOMAIN map THEN map[k] ELSE value]

insert(map, key, value) ==
    [k \in (DOMAIN map) \cup {key} |-> IF k = key THEN value ELSE map[k]]

remove(map, key) == [k \in (DOMAIN map) \ {key} |-> map[k]]

\* the orders in which a HashMap may hand out the keys of S
Orders(S) ==
    {o \in [1..Cardinality(S) -> S] : \A i, j \in DOMAIN o : i # j => o[i] # o[j]}

\* the keys of `order` that are in S, in the order of `order`
RECURSIVE restrict(_, _)
restrict(order, S) ==
    IF order = <<>> THEN <<>>
    ELSE IF Head(order) \in S THEN <<Head(order)>> \o restrict(Tail(order), S)
    ELSE restrict(Tail(order), S)

(***************************************************************************)
(* Thin Edge JSON alarms and their SmartREST form.                         *)
(***************************************************************************)
\* payloads that parse as Thin Edge JSON alarm data
ValidAlarmJson == {"hot", "cold"}

Severities == {"critical", "major", "minor", "warning"}

\* ThinEdgeAlarm::try_from(topic, payload): severity and name from the
\* topic, data from the payload; a zero-length payload is a clear
ThinEdgeAlarm_try_from(topic_name, payload) ==
    LET stripped == strip_prefix(topic_name, TEDGE_ALARMS_TOPIC) IN
    IF ~stripped.some THEN err("UnsupportedTopic")
    ELSE LET id == stripped.val
             slash == find_from(id, "/", 1) IN
         IF slash = 0 \/ slash = Len(id) THEN err("UnsupportedTopic")
         ELSE LET severity == SubSeq(id, 1, slash - 1)
                  name == SubSeq(id, slash + 1, Len(id))
              IN  IF severity \notin Severities THEN err("UnsupportedAlarmSeverity")
                  ELSE IF payload = ""
                       THEN [kind |-> "ok", severity |-> severity, name |-> name,
                             clear |-> TRUE, text |-> ""]
                  ELSE IF payload \in ValidAlarmJson
                       THEN [kind |-> "ok", severity |-> severity, name |-> name,
                             clear |-> FALSE, text |-> payload]
                  ELSE err("InvalidLocalJson")

\* alarm::serialize_alarm: 301..304 by severity, 306 for a clear
serialize_alarm(alarm) ==
    IF alarm.clear THEN "306," \o alarm.name
    ELSE (CASE alarm.severity = "critical" -> "301,"
            [] alarm.severity = "major" -> "302,"
            [] alarm.severity = "minor" -> "303,"
            [] OTHER -> "304,")
         \o alarm.name \o "," \o alarm.text

(***************************************************************************)
(* AlarmConverter: the alarm reconciler.                                   *)
(***************************************************************************)
Synced == [tag |-> "Synced"]

AlarmConverter_new ==
    [tag |-> "Syncing",
     pending_alarms_map |-> HashMap_new,
     old_alarms_map |-> HashMap_new]

\* AlarmConverter::try_convert_alarm: [self |-> the reconciler after the
\* call, res |-> the result]
AlarmConverter_try_convert_alarm(self, input) ==
    IF self.tag = "Syncing"
    THEN LET alarm_id == strip_prefix(input.topic, TEDGE_ALARMS_TOPIC) IN
         IF ~alarm_id.some
         THEN [self |-> self, res |-> Panic]
         ELSE [self |-> [self EXCEPT !.pending_alarms_map =
                                         insert(@, alarm_id.val, input)],
               res |-> ok(<<>>)]
    ELSE LET tedge_alarm == ThinEdgeAlarm_try_from(input.topic, input.payload) IN
         IF tedge_alarm.kind = "err"
         THEN [self |-> self, res |-> tedge_alarm]
         ELSE LET smartrest_alarm == serialize_alarm(tedge_alarm)
                  alarm_id == strip_prefix(input.topic, TEDGE_ALARMS_TOPIC).val
                  alarm_copy ==
                      with_retain(Message_new(INTERNAL_ALARMS_TOPIC \o alarm_id,
                                              input.payload))
              IN  [self |-> self,
                   res |-> ok(<<Message_new(SMARTREST_PUBLISH_TOPIC, smartrest_alarm),
                                alarm_copy>>)]

\* AlarmConverter::process_internal_alarm: the reconciler after the call
AlarmConverter_process_internal_alarm(self, input) ==
    IF self.tag = "Syncing"
    THEN LET alarm_id == strip_prefix(input.topic, INTERNAL_ALARMS_TOPIC) IN
         IF ~alarm_id.some
         THEN Panic
         ELSE [self EXCEPT !.old_alarms_map = insert(@, alarm_id.val, input)]
    ELSE self

\* sync_old publishing the clear message without the retain flag
RECURSIVE sync_old_unretained(_, _, _, _)
sync_old_unretained(old_order, old_alarms_map, pending_alarms_map, sync_messages) ==
    IF old_order = <<>>
    THEN [pending_alarms_map |-> pending_alarms_map, sync_messages |-> sync_messages]
    ELSE LET alarm_id == Head(old_order)
             old_message == old_alarms_map[alarm_id]
         IN  IF alarm_id \notin DOMAIN pending_alarms_map
             THEN sync_old_unretained(Tail(old_order), old_alarms_map, pending_alarms_map,
                           Append(sync_messages,
                                  Message_new(TEDGE_ALARMS_TOPIC \o alarm_id, "")))
             ELSE IF pending_alarms_map[alarm_id].payload = old_message.payload
             THEN sync_old_unretained(Tail(old_order), old_alarms_map,
                           remove(pending_alarms_map, alarm_id), sync_messages)
             ELSE sync_old_unretained(Tail(old_order), old_alarms_map,
                           pending_alarms_map, sync_messages)

\* sync_old leaving in pending the entries whose payload prior already holds
RECURSIVE sync_old_keeps_equal(_, _, _, _)
sync_old_keeps_equal(old_order, old_alarms_map, pending_alarms_map, sync_messages) ==
    IF old_order = <<>>
    THEN [pending_alarms_map |-> pending_alarms_map, sync_messages |-> sync_messages]
    ELSE LET alarm_id == Head(old_order)
         IN  IF alarm_id \notin DOMAIN pending_alarms_map
             THEN sync_old_keeps_equal(Tail(old_order), old_alarms_map, pending_alarms_map,
                           Append(sync_messages,
                                  with_retain(Message_new(TEDGE_ALARMS_TOPIC \o alarm_id, ""))))
             ELSE sync_old_keeps_equal(Tail(old_order), old_alarms_map,
                           pending_alarms_map, sync_messages)

\* the first loop of sync: old_alarms_map.drain() in the order old_order
RECURSIVE sync_old(_, _, _, _)
sync_old(old_order, old_alarms_map, pending_alarms_map, sync_messages) ==
    IF old_order = <<>>
    THEN [pending_alarms_map |-> pending_alarms_map, sync_messages |-> sync_messages]
    ELSE LET alarm_id == Head(old_order)
             old_message == old_alarms_map[alarm_id]
         IN  IF alarm_id \notin DOMAIN pending_alarms_map
             THEN sync_old(Tail(old_order), old_alarms_map, pending_alarms_map,
                           Append(sync_messages,
                                  with_retain(Message_new(TEDGE_ALARMS_TOPIC \o alarm_id, ""))))
             ELSE IF pending_alarms_map[alarm_id].payload = old_message.payload
             THEN sync_old(Tail(old_order), old_alarms_map,
                           remove(pending_alarms_map, alarm_id), sync_messages)
             ELSE sync_old(Tail(old_order), old_alarms_map, pending_alarms_map,
                           sync_messages)

\* the second loop of sync: pending_alarms_map.drain() in the order pending_order
sync_pending(pending_order, pending_alarms_map, sync_messages) ==
    sync_messages \o
        [i \in 1..Len(pending_order) |-> pending_alarms_map[pending_order[i]]]

\* AlarmConverter::sync with its two loops exchanged
AlarmConverter_sync_pending_first(self, old_order, pending_order) ==
    IF self.tag = "Syncing"
    THEN LET first == sync_old(restrict(old_order, DOMAIN self.old_alarms_map),
                               self.old_alarms_map, self.pending_alarms_map, <<>>)
             second == sync_pending(
                           restrict(pending_order, DOMAIN first.pending_alarms_map),
                           first.pending_alarms_map, <<>>)
         IN  [self |-> [self EXCEPT !.pending_alarms_map = HashMap_new,
                                    !.old_alarms_map = HashMap_new],
              sync_messages |-> second \o first.sync_messages]
    ELSE [self |-> self, sync_messages |-> <<>>]

\* AlarmConverter::sync, the two maps drained in the orders given (each an
\* order of all the keys the maps may hold): [self, sync_messages]
AlarmConverter_sync(self, old_order, pending_order) ==
    IF self.tag = "Syncing"
    THEN LET first == sync_old(restrict(old_order, DOMAIN self.old_alarms_map),
                               self.old_alarms_map, self.pending_alarms_map, <<>>)
             second == sync_pending(
                           restrict(pending_order, DOMAIN first.pending_alarms_map),
                           first.pending_alarms_map, first.sync_messages)
         IN  [self |-> [self EXCEPT !.pending_alarms_map = HashMap_new,
                                    !.old_alarms_map = HashMap_new],
              sync_messages |-> second]
    ELSE [self |-> self, sync_messages |-> <<>>]

(***************************************************************************)
(* CumulocityConverter.                                                    *)
(***************************************************************************)
\* payloads that parse as Thin Edge JSON measurements
ValidMeasurementJson == {"m1"}

\* json::from_thin_edge_json
from_thin_edge_json(payload) ==
    IF payload \in ValidMeasurementJson
    THEN [kind |-> "ok", json |-> "{type:ThinEdgeMeasurement," \o payload \o "}"]
    ELSE err("InvalidLocalJson")

\* json::from_thin_edge_json_with_child
from_thin_edge_json_with_child(payload, child_id) ==
    IF payload \in ValidMeasurementJson
    THEN [kind |-> "ok",
          json |-> "{type:ThinEdgeMeasurement,externalSource:" \o child_id
                   \o "," \o payload \o "}"]
    ELSE err("InvalidLocalJson")

\* get_child_id_from_topic
get_child_id_from_topic(topic) ==
    LET maybe_id == strip_prefix(topic, "tedge/measurements/") IN
    IF maybe_id.some /\ maybe_id.val = "" THEN err("InvalidChildId")
    ELSE [kind |-> "ok", id |-> maybe_id]

\* try_convert_measurement without self.children.insert
try_convert_measurement_forgets_child(children, input) ==
    LET maybe_child_id == get_child_id_from_topic(input.topic) IN
    IF maybe_child_id.kind = "err"
    THEN [children |-> children, res |-> maybe_child_id]
    ELSE IF maybe_child_id.id.some
    THEN LET child_id == maybe_child_id.id.val
             c8y_json_child_payload ==
                 from_thin_edge_json_with_child(input.payload, child_id)
         IN  IF c8y_json_child_payload.kind = "err"
             THEN [children |-> children, res |-> c8y_json_child_payload]
             ELSE IF child_id \notin children
             THEN [children |-> children,
                   res |-> ok(<<Message_new(SMARTREST_PUBLISH_TOPIC,
                                            "101," \o child_id \o "," \o child_id
                                            \o ",thin-edge.io-child"),
                                Message_new(out_topic, c8y_json_child_payload.json)>>)]
             ELSE [children |-> children,
                   res |-> ok(<<Message_new(out_topic, c8y_json_child_payload.json)>>)]
    ELSE LET c8y_json_payload == from_thin_edge_json(input.payload) IN
         IF c8y_json_payload.kind = "err"
         THEN [children |-> children, res |-> c8y_json_payload]
         ELSE [children |-> children,
               res |-> ok(<<Message_new(out_topic, c8y_json_payload.json)>>)]

\* try_convert_measurement inserting the child before the payload is parsed
try_convert_measurement_inserts_first(children, input) ==
    LET maybe_child_id == get_child_id_from_topic(input.topic) IN
    IF maybe_child_id.kind = "err"
    THEN [children |-> children, res |-> maybe_child_id]
    ELSE IF maybe_child_id.id.some
    THEN LET child_id == maybe_child_id.id.val
             c8y_json_child_payload ==
                 from_thin_edge_json_with_child(input.payload, child_id)
         IN  IF c8y_json_child_payload.kind = "err"
             THEN [children |-> children \cup {child_id},
                   res |-> c8y_json_child_payload]
             ELSE IF child_id \notin children
             THEN [children |-> children \cup {child_id},
                   res |-> ok(<<Message_new(SMARTREST_PUBLISH_TOPIC,
                                            "101," \o child_id \o "," \o child_id
                                            \o ",thin-edge.io-child"),
                                Message_new(out_topic, c8y_json_child_payload.json)>>)]
             ELSE [children |-> children,
                   res |-> ok(<<Message_new(out_topic, c8y_json_child_payload.json)>>)]
    ELSE LET c8y_json_payload == from_thin_edge_json(input.payload) IN
         IF c8y_json_payload.kind = "err"
         THEN [children |-> children, res |-> c8y_json_payload]
         ELSE [children |-> children,
               res |-> ok(<<Message_new(out_topic, c8y_json_payload.json)>>)]

\* CumulocityConverter::try_convert_measurement: [children, res]
try_convert_measurement(children, input) ==
    LET maybe_child_id == get_child_id_from_topic(input.topic) IN
    IF maybe_child_id.kind = "err"
    THEN [children |-> children, res |-> maybe_child_id]
    ELSE IF maybe_child_id.id.some
    THEN LET child_id == maybe_child_id.id.val
             c8y_json_child_payload ==
                 from_thin_edge_json_with_child(input.payload, child_id)
         IN  IF c8y_json_child_payload.kind = "err"
             THEN [children |-> children, res |-> c8y_json_child_payload]
             ELSE IF child_id \notin children
             THEN [children |-> children \cup {child_id},
                   res |-> ok(<<Message_new(SMARTREST_PUBLISH_TOPIC,
                                            "101," \o child_id \o "," \o child_id
                                            \o ",thin-edge.io-child"),
                                Message_new(out_topic, c8y_json_child_payload.json)>>)]
             ELSE [children |-> children,
                   res |-> ok(<<Message_new(out_topic, c8y_json_child_payload.json)>>)]
    ELSE LET c8y_json_payload == from_thin_edge_json(input.payload) IN
         IF c8y_json_payload.kind = "err"
         THEN [children |-> children, res |-> c8y_json_payload]
         ELSE [children |-> children,
               res |-> ok(<<Message_new(out_topic, c8y_json_payload.json)>>)]

\* CumulocityConverter::try_convert_alarm (the converter's own method, not
\* the reconciler's): one SmartREST message, whatever the reconciler's state
CumulocityConverter_try_convert_alarm(input) ==
    LET tedge_alarm == ThinEdgeAlarm_try_from(input.topic, input.payload) IN
    IF tedge_alarm.kind = "err" THEN tedge_alarm
    ELSE ok(<<Message_new(SMARTREST_PUBLISH_TOPIC, serialize_alarm(tedge_alarm))>>)

\* SizeThreshold::validate
size_threshold_validate(payload) ==
    IF payload_len(payload) > size_threshold THEN err("SizeExceeded") ELSE ok(<<>>)

\* topics of the software management side
SoftwareListResponse == "tedge/commands/res/software/list"
SoftwareUpdateResponse == "tedge/commands/res/software/update"
RestartResponse == "tedge/commands/res/control/restart"
SoftwareUpdateRequest == "tedge/commands/req/software/update"
RestartRequest == "tedge/commands/req/control/restart"
SmartRestRequest == "c8y/s/ds"

\* TryFrom<Topic> for MapperSubscribeTopic
MapperSubscribeTopic_try_from(topic) ==
    IF topic \in {SoftwareListResponse, SoftwareUpdateResponse, RestartResponse}
    THEN [kind |-> "ok", variant |-> "ResponseTopic", topic |-> topic]
    ELSE IF topic = SmartRestRequest
    THEN [kind |-> "ok", variant |-> "C8yTopic", topic |-> topic]
    ELSE err("UnsupportedTopic")

\* the operation registry: template id -> command
operations == [t \in {"511"} |-> "/etc/tedge/operations/command"]

\* Operations::matching_smartrest_template
matching_smartrest_template(ops, template) ==
    IF template \in DOMAIN ops THEN Some([command |-> Some(ops[template])]) ELSE None

\* SmartREST payloads whose parameters are well formed
WellFormedSmartRest == {"528,dev,apt,curl", "510,dev", "511,dev"}

\* forward_software_request; env.jwt is the outcome of get_jwt_token
forward_software_request(smartrest, env) ==
    IF smartrest \notin WellFormedSmartRest THEN err("InvalidSmartRest")
    ELSE IF ~env.jwt THEN err("HttpError")
    ELSE ok(<<Message_new(SoftwareUpdateRequest,
                          "{updateList:" \o SubSeq(smartrest, 5, Len(smartrest)) \o "}")>>)

\* forward_restart_request
forward_restart_request(smartrest) ==
    IF smartrest \notin WellFormedSmartRest THEN err("InvalidSmartRest")
    ELSE ok(<<Message_new(RestartRequest, "{id:restart}")>>)

\* process_smartrest with the arms of 528 and 510 exchanged
process_smartrest_arms_exchanged(payload, ops, env) ==
    IF Len(payload) < 3 THEN Panic
    ELSE LET message_id == SubSeq(payload, 1, 3) IN
         IF message_id = "510" THEN forward_software_request(payload, env)
         ELSE IF message_id = "528" THEN forward_restart_request(payload)
         ELSE LET operation == matching_smartrest_template(ops, message_id) IN
              IF ~operation.some THEN err("UnknownOperation")
              ELSE IF operation.val.command.some /\ ~env.spawn THEN err("ExecuteFailed")
              ELSE ok(<<>>)

\* process_smartrest; env.spawn is the outcome of execute_operation
process_smartrest(payload, ops, env) ==
    IF Len(payload) < 3 THEN Panic
    ELSE LET message_id == SubSeq(payload, 1, 3) IN
         IF message_id = "528" THEN forward_software_request(payload, env)
         ELSE IF message_id = "510" THEN forward_restart_request(payload)
         ELSE LET operation == matching_smartrest_template(ops, message_id) IN
              IF ~operation.some THEN err("UnknownOperation")
              ELSE IF operation.val.command.some /\ ~env.spawn THEN err("ExecuteFailed")
              ELSE ok(<<>>)

\* Result::unwrap
unwrap(res) == IF res.kind = "ok" THEN res ELSE Panic

\* try_convert with the size check made on the measurement topics only,
\* after the routing
try_convert_routes_first(children, message, env) ==
    IF starts_with(message.topic, "tedge/measurements")
    THEN IF size_threshold_validate(message.payload).kind = "err"
         THEN [children |-> children, res |-> size_threshold_validate(message.payload)]
         ELSE try_convert_measurement(children, message)
    ELSE IF starts_with(message.topic, "tedge/alarms")
    THEN [children |-> children, res |-> CumulocityConverter_try_convert_alarm(message)]
    ELSE LET request_topic == unwrap(MapperSubscribeTopic_try_from(message.topic)) IN
         IF request_topic.kind = "panic"
         THEN [children |-> children, res |-> Panic]
         ELSE IF request_topic.variant = "ResponseTopic"
         THEN [children |-> children, res |-> ok(<<>>)]
         ELSE [children |-> children,
               res |-> unwrap(process_smartrest(message.payload, operations, env))]

\* CumulocityConverter::try_convert: [children, res]
try_convert(children, message, env) ==
    IF size_threshold_validate(message.payload).kind = "err"
    THEN [children |-> children, res |-> size_threshold_validate(message.payload)]
    ELSE IF starts_with(message.topic, "tedge/measurements")
    THEN try_convert_measurement(children, message)
    ELSE IF starts_with(message.topic, "tedge/alarms")
    THEN [children |-> children, res |-> CumulocityConverter_try_convert_alarm(message)]
    ELSE LET request_topic == unwrap(MapperSubscribeTopic_try_from(message.topic)) IN
         IF request_topic.kind = "panic"
         THEN [children |-> children, res |-> Panic]
         ELSE IF request_topic.variant = "ResponseTopic"
         THEN [children |-> children, res |-> ok(<<>>)]
         ELSE [children |-> children,
               res |-> unwrap(process_smartrest(message.payload, operations, env))]

\* Converter::convert: an error becomes one message on the errors topic
convert_wrap_errors(res) ==
    IF res.kind = "ok" THEN res.msgs
    ELSE IF res.kind = "err" THEN <<Message_new(errors_topic, res.err)>>
    ELSE <<>>

\* sync_messages without the assignment of AlarmConverter::Synced
sync_messages_keeps_state(self, old_order, pending_order) ==
    [alarm_converter |-> self,
     sync_messages |-> AlarmConverter_sync(self, old_order, pending_order).sync_messages]

\* CumulocityConverter::sync_messages: [alarm_converter, sync_messages]
sync_messages(self, old_order, pending_order) ==
    [alarm_converter |-> Synced,
     sync_messages |-> AlarmConverter_sync(self, old_order, pending_order).sync_messages]

(***************************************************************************)
(* SmAgent: configuration, journal, requests, plugins.                     *)
(***************************************************************************)
response_topic_list == "tedge/commands/res/software/list"
response_topic_update == "tedge/commands/res/software/update"
config_errors_topic == "tedge/errors"
request_topic_list == "tedge/commands/req/software/list"
request_topic_update == "tedge/commands/req/software/update"

\* State of the AgentStateRepository
State(operation_id, operation) ==
    [operation_id |-> operation_id, operation |-> operation]
NoOperation == State(None, None)

\* the journal file: unreadable (absent or corrupt), or holding a State
UnreadableFile == [readable |-> FALSE, state |-> NoOperation]
AgentStateRepository_store(state) == [readable |-> TRUE, state |-> state]
AgentStateRepository_clear == [readable |-> TRUE, state |-> NoOperation]
AgentStateRepository_load(file) ==
    IF file.readable THEN [kind |-> "ok", state |-> file.state]
    ELSE err("FromIo")

\* SoftwareOperation::from_str
SoftwareOperation_from_str(operation_string) ==
    IF operation_string = "list" THEN "CurrentSoftwareList"
    ELSE IF operation_string = "update" THEN "SoftwareUpdates"
    ELSE "UnknownOperation"

\* impl From<Topic> for SoftwareOperation ("todo": the todo!() of the last arm)
SoftwareOperation_from(topic) ==
    IF topic = request_topic_list THEN "CurrentSoftwareList"
    ELSE IF topic = request_topic_update THEN "SoftwareUpdates"
    ELSE "todo"

\* check_state_store reading a failure of load as an unfinished update
check_state_store_load_failure_as_live(file) ==
    IF AgentStateRepository_load(file).kind = "ok"
    THEN AgentStateRepository_load(file).state
    ELSE State(Some(1), Some("update"))

\* the State loaded by check_state_store, a failure of load read as no state
check_state_store_load(file) ==
    IF AgentStateRepository_load(file).kind = "ok"
    THEN AgentStateRepository_load(file).state
    ELSE State(None, None)

\* check_state_store publishing on the update topic whatever the operation
check_state_store_topic_of_update(operation) == response_topic_update

\* the topic check_state_store publishes on
check_state_store_topic(operation) ==
    IF operation = "CurrentSoftwareList" THEN response_topic_list
    ELSE IF operation = "SoftwareUpdates" THEN response_topic_update
    ELSE config_errors_topic

\* SoftwareRequestResponse
SoftwareRequestResponse(id, status, reason, current_software_list, failures_) ==
    [id |-> id, status |-> status, reason |-> reason,
     current_software_list |-> current_software_list, failures |-> failures_]

\* the response check_state_store publishes
check_state_store_response(id) ==
    SoftwareRequestResponse(id, "Failed", Some("unfinished operation request"),
                            None, None)

\* publish_status_executing announcing the status the response starts from
publish_status_executing_response_as_failed(id) ==
    SoftwareRequestResponse(id, "Failed", None, None, None)

\* the response publish_status_executing publishes
publish_status_executing_response(id) ==
    SoftwareRequestResponse(id, "Executing", None, None, None)

\* the response handle_software_update_request starts from
update_response_new(id) ==
    SoftwareRequestResponse(id, "Failed", None, None, None)

\* the response handle_software_list_request publishes
list_response(id, current_software_list) ==
    SoftwareRequestResponse(id, "Successful", None, Some(current_software_list), None)

\* the State of an update request stored without its operation
update_request_state_without_kind(id) == State(Some(id), None)

\* the State the handlers store
update_request_state(id) == State(Some(id), Some("update"))
list_request_state(id) == State(Some(id), Some("list"))

\* SmAgent::finalize_response
finalize_response(response_, software_list, failures_) ==
    [response_ EXCEPT
        !.status = IF failures_ = <<>> THEN "Successful" ELSE @,
        !.current_software_list = Some(software_list),
        !.failures = Some(failures_)]

\* a message that carries a SoftwareRequestResponse, and one that carries text
StatusMessage(topic, response_) ==
    [kind |-> "status", topic |-> topic, response |-> response_]
TextMessage(topic, payload, retain) ==
    [kind |-> "text", topic |-> topic, payload |-> payload, retain |-> retain]

\* the two messages of publish_capabilities
capabilities ==
    <<TextMessage("tedge/capabilities/software/list", "", TRUE),
      TextMessage("tedge/capabilities/software/update", "", TRUE)>>

\* ExternalPlugins: the software types of /etc/tedge/sm-plugins
plugin_map == {"apt", "snap"}
by_software_type(software_type) ==
    IF software_type \in plugin_map THEN Some(software_type) ELSE None
\* what plugins.list() returns
plugins_list == <<[plugin_type |-> "apt", list |-> <<"curl">>],
                  [plugin_type |-> "snap", list |-> <<>>]>>

\* the subcommands of ExternalPluginCommand
PREPARE == "prepare"
INSTALL == "install"
UNINSTALL == "uninstall"
FINALIZE == "finalize"
LIST == "list"

\* ExternalPluginCommand::command: the arguments given to the plugin
ExternalPluginCommand_command(action, maybe_module) ==
    <<action>>
    \o (IF maybe_module.some
        THEN <<maybe_module.val.name>>
             \o (IF maybe_module.val.version.some
                 THEN <<maybe_module.val.version.val>> ELSE <<>>)
        ELSE <<>>)

\* the arguments of Plugin::install and Plugin::remove for a module
Plugin_install(module) == ExternalPluginCommand_command(INSTALL, Some(module))
Plugin_remove(module) == ExternalPluginCommand_command(UNINSTALL, Some(module))

\* PluginOp of tedge_apt_plugin, as structopt parses the arguments: the
\* subcommand, then for install and remove the module and an optional version
\* given with -v or --module-version
PluginOp_from_args(args) ==
    IF args = <<>> THEN err("MissingSubcommand")
    ELSE IF args[1] \in {"list", "prepare", "finalize"}
    THEN IF Len(args) = 1
         THEN [kind |-> "ok", operation |-> args[1], module |-> "", version |-> None]
         ELSE err("UnexpectedArgument")
    ELSE IF args[1] \in {"install", "remove"}
    THEN IF Len(args) = 2
         THEN [kind |-> "ok", operation |-> args[1], module |-> args[2],
               version |-> None]
         ELSE IF Len(args) = 4 /\ args[3] \in {"-v", "--module-version"}
         THEN [kind |-> "ok", operation |-> args[1], module |-> args[2],
               version |-> Some(args[4])]
         ELSE err("UnexpectedArgument")
    ELSE err("UnrecognizedSubcommand")

\* a command of a plugin that was run, its arguments, and whether it succeeded
Call(command, plugin, module, succeeded) ==
    [command |-> command, plugin |-> plugin, module |-> module, ok |-> succeeded,
     args |-> ExternalPluginCommand_command(command, None)]

\* plugin.install(&module) or plugin.remove(&module), by the action of the module
ModuleCall(plugin, module, succeeded) ==
    [Call(module.action, plugin, module.name, succeeded) EXCEPT
        !.args = IF module.action = "install" THEN Plugin_install(module)
                 ELSE Plugin_remove(module)]

\* install_or_remove returning at the first module that fails
RECURSIVE install_or_remove_stops_at_failure(_, _, _, _, _, _, _)
install_or_remove_stops_at_failure(list, plugin, outcomes, i, response_, failures_modules, calls_) ==
    IF i > Len(list)
    THEN [response |-> response_, failures_modules |-> failures_modules,
          calls |-> calls_]
    ELSE IF outcomes[i]
    THEN install_or_remove_stops_at_failure(list, plugin, outcomes, i + 1, response_,
            failures_modules,
            Append(calls_, ModuleCall(plugin, list[i], TRUE)))
    ELSE [response |-> [response_ EXCEPT !.reason =
                           IF list[i].action = "install"
                           THEN Some("Module installation failed")
                           ELSE Some("Module removal failed")],
          failures_modules |-> Append(failures_modules, list[i].name),
          calls |-> Append(calls_, ModuleCall(plugin, list[i], FALSE))]

\* SmAgent::install_or_remove from module i on, outcomes[i] telling whether the
\* plugin command of module i succeeds: [response, failures_modules, calls]
RECURSIVE install_or_remove(_, _, _, _, _, _, _)
install_or_remove(list, plugin, outcomes, i, response_, failures_modules, calls_) ==
    IF i > Len(list)
    THEN [response |-> response_, failures_modules |-> failures_modules,
          calls |-> calls_]
    ELSE IF outcomes[i]
    THEN install_or_remove(list, plugin, outcomes, i + 1, response_, failures_modules,
            Append(calls_, ModuleCall(plugin, list[i], TRUE)))
    ELSE install_or_remove(list, plugin, outcomes, i + 1,
            [response_ EXCEPT !.reason =
                IF list[i].action = "install"
                THEN Some("Module installation failed")
                ELSE Some("Module removal failed")],
            Append(failures_modules, list[i].name),
            Append(calls_, ModuleCall(plugin, list[i], FALSE)))

(***************************************************************************)
(* State.                                                                  *)
(***************************************************************************)
VARIABLES
    \* CumulocityConverter
    children,          \* HashSet<String> of the child devices already created
    alarm_converter,   \* AlarmConverter
    panicked,          \* the converter's thread has panicked
    \* the last operation called on the converter and what it returned
    last,              \* [op, input, res] ([op, pre] for sync_messages)
    out,               \* the Vec<Message> it returned
    converted,         \* the child ids a measurement of which has been converted
    rejected,          \* the child ids a measurement of which was refused before
                       \* any was converted
    received,          \* the alarm messages the reconciler was given while Syncing
    \* SmAgent
    journal,           \* the file of the AgentStateRepository
    pc,                \* where the agent is
    request,           \* the request being handled
    response,          \* the SoftwareRequestResponse being built
    failures,          \* ListSoftwareListResponseList of the update
    type_idx,          \* index in request.update_list
    published,         \* the messages published since the agent last started
    loaded,            \* the State loaded by check_state_store
    nrequests,         \* requests received so far
    nstarts,           \* starts of the agent so far
    interrupted,       \* the id of the request a crash has interrupted, if any
    calls,             \* the plugin commands run for the request being handled
    succeeded,         \* the ids a Successful status was published for, ever
    \* Mapper
    phase,             \* where process_messages is: init, window, flush, post
    step,              \* where the processing of a message is
    current,           \* the message being processed
    converted_messages, \* the messages returned for it that are not yet sent
    output,            \* the messages sent on the output channel
    taken,             \* messages taken from the input so far
    serial,            \* calls of process_message so far
    sync_queue,        \* the sync messages not yet processed
    flushes,           \* calls of sync_messages so far
    ended_by,          \* what ended the sync phase
    output_closed,     \* the receiver of the output channel is gone: a send fails
    \* tedge cert
    files,             \* the files at the paths the commands are given
    cert_cmd           \* the last command executed and what it returned

converter_vars == <<children, alarm_converter, panicked, last, out, converted,
                    rejected, received>>
agent_vars == <<journal, pc, request, response, failures, type_idx, published,
                loaded, nrequests, nstarts, interrupted, calls, succeeded>>
mapper_vars == <<phase, step, current, converted_messages, output, taken, serial,
                 sync_queue, flushes, ended_by, output_closed>>
cert_vars == <<files, cert_cmd>>
vars == <<children, alarm_converter, panicked, last, out, converted, rejected,
          received,
          journal, pc, request, response, failures, type_idx, published,
          loaded, nrequests, nstarts, interrupted, calls, succeeded,
          phase, step, current, converted_messages, output, taken, serial,
          sync_queue, flushes, ended_by, output_closed, files, cert_cmd>>

(***************************************************************************)
(* Inputs of the converter.                                                *)
(***************************************************************************)
AlarmIds == {"critical/temp", "major/pressure"}
AlarmPayloads == {"", "hot", "bad"}

LocalAlarmMessages ==
    {[topic |-> TEDGE_ALARMS_TOPIC \o id, payload |-> p, retain |-> r] :
        id \in AlarmIds, p \in AlarmPayloads, r \in BOOLEAN}

InternalAlarmMessages ==
    {[topic |-> INTERNAL_ALARMS_TOPIC \o id, payload |-> p, retain |-> TRUE] :
        id \in AlarmIds, p \in AlarmPayloads}

ChildIds == {"child1", "child2"}

MeasurementMessages ==
    {Message_new(t, p) :
        t \in {TEDGE_MEASUREMENTS_TOPIC, "tedge/measurements/"}
              \cup {"tedge/measurements/" \o c : c \in ChildIds},
        p \in {"m1", "bad", BigPayload}}

\* the message is a measurement of a child device, and the id of the child
IsChildMeasurement(message) ==
    /\ starts_with(message.topic, "tedge/measurements/")
    /\ Len(message.topic) > Len("tedge/measurements/")
ChildOf(message) == strip_prefix(message.topic, "tedge/measurements/").val

\* messages of more than size_threshold bytes on the other topics
OversizeMessages ==
    {Message_new(t, BigPayload) :
        t \in {TEDGE_ALARMS_TOPIC \o "critical/temp",
               INTERNAL_ALARMS_TOPIC \o "critical/temp",
               SoftwareListResponse, SmartRestRequest, "foo/bar"}}

\* the software update responses of the agent, by their status
UpdateResponsePayloads ==
    {"{id:1,status:executing}", "{id:1,status:successful}", "{id:1,status:failed}"}

OtherMessages ==
    {Message_new(SoftwareUpdateResponse, p) : p \in UpdateResponsePayloads}
    \cup
    {Message_new(SoftwareListResponse, "{id:1}"),
     Message_new(SoftwareUpdateResponse, "{id:1}"),
     Message_new(RestartResponse, "{id:1}"),
     Message_new("foo/bar", "m1")}
    \cup {Message_new(SmartRestRequest, p) :
            p \in {"528,dev,apt,curl", "528,dev", "510,dev", "511,dev", "999,foo", "51"}}

InputMessages ==
    LocalAlarmMessages \cup InternalAlarmMessages \cup MeasurementMessages
    \cup OtherMessages \cup OversizeMessages

\* the outcomes of the converter's external calls (get_jwt_token,
\* execute_operation), which only a SmartREST request makes
Envs(message) ==
    IF message.topic = SmartRestRequest
    THEN [jwt : BOOLEAN, spawn : BOOLEAN]
    ELSE {[jwt |-> TRUE, spawn |-> TRUE]}

NoRequest == [topic |-> "", valid |-> FALSE, id |-> 0, update_list |-> <<>>]
NoResponse == update_response_new(0)

\* the agent, not started
AgentDown ==
    /\ pc = "down"
    /\ request = NoRequest
    /\ response = NoResponse
    /\ failures = <<>>
    /\ type_idx = 0
    /\ published = <<>>
    /\ loaded = NoOperation
    /\ nrequests = 0
    /\ nstarts = 0
    /\ interrupted = None
    /\ calls = <<>>
    /\ succeeded = {}

\* process_message: no message is being processed (the argument `message` lives
\* for one call)
NoCurrent == [origin |-> "", late |-> FALSE, topic |-> ""]

\* Mapper::new
MapperNew ==
    /\ phase = "init"
    /\ step = "next"
    /\ current = NoCurrent
    /\ converted_messages = <<>>
    /\ output = <<>>
    /\ taken = 0
    /\ serial = 0
    /\ sync_queue = <<>>
    /\ flushes = 0
    /\ ended_by = ""
    /\ output_closed = FALSE

\* the paths given to the commands of tedge cert
CertPaths == {"/tmp/a/cert.pem", "/tmp/a/key.pem", "/non/existent/cert/path"}

\* a path without file, and a file with its content and its permissions
Absent == [exists |-> FALSE, content |-> "", mode |-> ""]
FileOf(content, mode) == [exists |-> TRUE, content |-> content, mode |-> mode]

NoCertCmd == [op |-> ""]

\* no certificate was ever created
CertNew ==
    /\ files = [path \in CertPaths |-> Absent]
    /\ cert_cmd = NoCertCmd

\* no alarm message was given to the reconciler yet: the last message given
\* on the local topic and on the mirror topic of each key, and whether a local
\* message took the place of an earlier one of its key with another payload
NothingReceived ==
    [local |-> HashMap_new, internal |-> HashMap_new, again |-> FALSE]

\* the reconciler, Syncing, is given a message of the local alarm topic
ReceiveLocal(message) ==
    LET alarm_id == strip_prefix(message.topic, TEDGE_ALARMS_TOPIC).val IN
    [local |-> [k \in (DOMAIN received.local) \cup {alarm_id} |->
                   IF k = alarm_id THEN message ELSE received.local[k]],
     internal |-> received.internal,
     again |-> \/ received.again
               \/ /\ alarm_id \in DOMAIN received.local
                  /\ received.local[alarm_id].payload # message.payload]

\* the reconciler, Syncing, is given a message of the mirror topic
ReceiveInternal(message) ==
    LET alarm_id == strip_prefix(message.topic, INTERNAL_ALARMS_TOPIC).val IN
    [received EXCEPT !.internal =
        [k \in (DOMAIN received.internal) \cup {alarm_id} |->
            IF k = alarm_id THEN message ELSE received.internal[k]]]

\* what was given to the reconciler is of no use once it is Synced and the
\* result of the flush has been taken
StillReceived ==
    IF alarm_converter.tag = "Syncing" THEN received ELSE NothingReceived

\* CumulocityConverter::new
ConverterNew ==
    /\ children = {}
    /\ alarm_converter = AlarmConverter_new
    /\ panicked = FALSE
    /\ last = [op |-> "new"]
    /\ out = <<>>
    /\ converted = {}
    /\ rejected = {}
    /\ received = NothingReceived

(***************************************************************************)
(* Operations of the converter.                                            *)
(***************************************************************************)
\* Converter::convert(message)
Convert(message, env) ==
    /\ ~panicked
    /\ LET r == try_convert(children, message, env) IN
       /\ children' = r.children
       /\ panicked' = (r.res.kind = "panic")
       /\ out' = convert_wrap_errors(r.res)
       /\ last' = [op |-> "convert", input |-> message, res |-> r.res, env |-> env]
       /\ converted' = IF IsChildMeasurement(message) /\ r.res.kind = "ok"
                       THEN converted \cup {ChildOf(message)}
                       ELSE converted
       /\ rejected' = IF /\ IsChildMeasurement(message)
                         /\ r.res.kind = "err"
                         /\ ChildOf(message) \notin converted
                      THEN rejected \cup {ChildOf(message)}
                      ELSE rejected
    /\ received' = StillReceived
    /\ UNCHANGED alarm_converter
    /\ UNCHANGED <<agent_vars, mapper_vars, cert_vars>>

\* AlarmConverter::try_convert_alarm(message), called on the reconciler
AlarmTryConvertAlarm(message) ==
    /\ ~panicked
    /\ LET r == AlarmConverter_try_convert_alarm(alarm_converter, message) IN
       /\ alarm_converter' = r.self
       /\ panicked' = (r.res.kind = "panic")
       /\ out' = convert_wrap_errors(r.res)
       /\ last' = [op |-> "try_convert_alarm", input |-> message, res |-> r.res]
    /\ received' = IF alarm_converter.tag = "Syncing" THEN ReceiveLocal(message)
                   ELSE StillReceived
    /\ UNCHANGED <<children, converted, rejected>>
    /\ UNCHANGED <<agent_vars, mapper_vars, cert_vars>>

\* AlarmConverter::process_internal_alarm(message), called on the reconciler
AlarmProcessInternalAlarm(message) ==
    /\ ~panicked
    /\ alarm_converter' = AlarmConverter_process_internal_alarm(alarm_converter, message)
    /\ out' = <<>>
    /\ last' = [op |-> "process_internal_alarm", input |-> message, res |-> ok(<<>>)]
    /\ received' = IF alarm_converter.tag = "Syncing" THEN ReceiveInternal(message)
                   ELSE StillReceived
    /\ UNCHANGED <<children, panicked, converted, rejected>>
    /\ UNCHANGED <<agent_vars, mapper_vars, cert_vars>>

\* Converter::sync_messages()
SyncMessages(old_order, pending_order) ==
    /\ ~panicked
    /\ LET r == sync_messages(alarm_converter, old_order, pending_order) IN
       /\ alarm_converter' = r.alarm_converter
       /\ out' = r.sync_messages
       /\ last' = [op |-> "sync_messages", pre |-> alarm_converter]
    /\ received' = StillReceived
    /\ UNCHANGED <<children, panicked, converted, rejected>>
    /\ UNCHANGED <<agent_vars, mapper_vars, cert_vars>>

Init ==
    /\ ConverterNew
    /\ AgentDown
    /\ MapperNew
    /\ CertNew
    /\ journal = AgentStateRepository_clear

\* The converter as the mapper drives it: convert and sync_messages.
Next ==
    \/ \E message \in InputMessages : \E env \in Envs(message) : Convert(message, env)
    \/ \E old_order \in Orders(AlarmIds), pending_order \in Orders(AlarmIds) :
          SyncMessages(old_order, pending_order)

Spec == Init /\ [][Next]_vars

\* The alarm traffic: convert on the alarm topics, sync_messages, and the
\* reconciler driven through its own methods (CumulocityConverter::try_convert
\* calls neither try_convert_alarm nor process_internal_alarm of the reconciler,
\* so its maps are filled by these methods only).
AlarmNext ==
    \/ \E message \in LocalAlarmMessages \cup InternalAlarmMessages :
          \E env \in Envs(message) : Convert(message, env)
    \/ \E message \in LocalAlarmMessages : AlarmTryConvertAlarm(message)
    \/ \E message \in InternalAlarmMessages : AlarmProcessInternalAlarm(message)
    \/ \E old_order \in Orders(AlarmIds), pending_order \in Orders(AlarmIds) :
          SyncMessages(old_order, pending_order)

AlarmSpec == Init /\ [][AlarmNext]_vars

(***************************************************************************)
(* The sync flush (claims C1, C2, C5, C7).                                 *)
(***************************************************************************)
\* the state is the one a sync flush of a Syncing reconciler has produced
Flushed == last.op = "sync_messages" /\ last.pre.tag = "Syncing"
prior == last.pre.old_alarms_map
pending == last.pre.pending_alarms_map

\* the positions of `out` that hold a message on the local alarm topic of k
EmittedFor(k) == {i \in DOMAIN out : out[i].topic = TEDGE_ALARMS_TOPIC \o k}

C7_SyncIsOneShot ==
    /\ [](last.op = "sync_messages" => alarm_converter = Synced)
    /\ [](last.op = "sync_messages" /\ last.pre.tag = "Synced" => out = <<>>)
    /\ [][alarm_converter.tag = "Synced" => alarm_converter' = Synced]_vars

C7_Witness ==
    /\ last.op = "sync_messages"
    /\ last.pre.tag = "Synced"
    /\ alarm_converter = Synced

(***************************************************************************)
(* The routing of alarm messages (claims C3, C4, C6).                      *)
(***************************************************************************)
\* the key of a message on the local or on the internal alarm topic
AlarmKey(message) ==
    IF strip_prefix(message.topic, TEDGE_ALARMS_TOPIC).some
    THEN strip_prefix(message.topic, TEDGE_ALARMS_TOPIC).val
    ELSE strip_prefix(message.topic, INTERNAL_ALARMS_TOPIC).val

\* C3: while the reconciler is Syncing, converting a message on a local alarm
\* topic returns no message and records the message in pending under its key.
C3_SyncingAlarmIsOnlyRecorded ==
    (/\ last.op = "convert"
     /\ last.input \in LocalAlarmMessages
     /\ alarm_converter.tag = "Syncing")
    => /\ out = <<>>
       /\ AlarmKey(last.input) \in DOMAIN alarm_converter.pending_alarms_map
       /\ alarm_converter.pending_alarms_map[AlarmKey(last.input)] = last.input

\* C4: in Synced state, converting a local alarm whose payload converts yields
\* exactly one SmartREST message on c8y/s/us and exactly one retained message
\* on c8y-internal/alarms/<key> with the payload of the local alarm.
C4_SyncedAlarmIsMirrored ==
    (/\ last.op = "convert"
     /\ last.input \in LocalAlarmMessages
     /\ alarm_converter.tag = "Synced"
     /\ last.res.kind = "ok")
    => /\ Cardinality({i \in DOMAIN out : out[i].topic = SMARTREST_PUBLISH_TOPIC}) = 1
       /\ Cardinality({i \in DOMAIN out :
              out[i] = [topic |-> INTERNAL_ALARMS_TOPIC \o AlarmKey(last.input),
                        payload |-> last.input.payload, retain |-> TRUE]}) = 1
       /\ Len(out) = 2

\* C6: converting a message on the internal alarm topic returns no message;
\* during Syncing the message is stored in prior under its key, in Synced it is
\* ignored and the converter goes on.
C6_InternalAlarmIsSilent ==
    (last.op = "convert" /\ last.input \in InternalAlarmMessages)
    => /\ out = <<>>
       /\ ~panicked
       /\ alarm_converter.tag = "Syncing" =>
            /\ AlarmKey(last.input) \in DOMAIN alarm_converter.old_alarms_map
            /\ alarm_converter.old_alarms_map[AlarmKey(last.input)] = last.input

(***************************************************************************)
(* SmAgent.                                                                *)
(***************************************************************************)
MaxRequests == 1
MaxStarts == 2
RequestIds == {1, 2}

\* the journal files the agent may find when it is first started
JournalFiles ==
    {UnreadableFile, AgentStateRepository_clear,
     AgentStateRepository_store(State(Some(1), None)),
     AgentStateRepository_store(State(None, Some("update"))),
     AgentStateRepository_store(State(Some(1), Some("list"))),
     AgentStateRepository_store(State(Some(2), Some("update"))),
     AgentStateRepository_store(State(Some(1), Some("restart")))}

Module(name, action) == [name |-> name, action |-> action, version |-> None]
ModuleVersion(name, action, version) ==
    [name |-> name, action |-> action, version |-> Some(version)]
UpdateLists ==
    {<<>>,
     <<[plugin_type |-> "apt",
        list |-> <<Module("curl", "install"), ModuleVersion("vim", "remove", "8.2")>>]>>,
     <<[plugin_type |-> "apt", list |-> <<Module("curl", "install")>>],
       [plugin_type |-> "snap", list |-> <<Module("core", "remove")>>]>>,
     <<[plugin_type |-> "dnf", list |-> <<Module("curl", "install")>>]>>}

\* the messages received on tedge/commands/req/software/#, the payload given
\* by what from_slice makes of it
Requests ==
    {[topic |-> request_topic_list, valid |-> TRUE, id |-> id, update_list |-> <<>>] :
        id \in RequestIds}
    \cup {[topic |-> request_topic_update, valid |-> TRUE, id |-> id, update_list |-> l] :
        id \in RequestIds, l \in UpdateLists}
    \cup {[topic |-> t, valid |-> FALSE, id |-> 0, update_list |-> <<>>] :
        t \in {request_topic_list, request_topic_update,
               "tedge/commands/req/software/foo"}}

Stopped == {"down", "exited", "panicked"}
Running == {"check_state_store", "publish_capabilities", "idle",
            "u_store", "u_executing", "u_prepare", "u_modules", "u_list",
            "u_publish", "u_clear", "l_store", "l_list", "l_publish", "l_clear"}

\* the request is accepted (its journal entry is written) and the response of
\* the handler is not yet published
MidOperation == {"u_executing", "u_prepare", "u_modules", "u_list", "u_publish",
                 "l_list", "l_publish"}

\* mqtt.publish(message).await?: the message is published and the agent goes
\* on to `next`, or the publication fails and start returns the error
Publish(sent, messages, next) ==
    /\ published' = IF sent THEN published \o messages ELSE published
    /\ pc' = IF sent THEN next ELSE "exited"

\* the messages this step has published
JustPublished ==
    {i \in DOMAIN published' : i > Len(published)}

\* the ids of the Successful statuses this step has published are recorded
RecordSucceeded ==
    succeeded' = succeeded \cup
        {published'[i].response.id :
            i \in {j \in JustPublished :
                      /\ published'[j].kind = "status"
                      /\ published'[j].response.status = "Successful"}}

\* the locals of the handler of the request, which are dropped when the
\* handler returns and when the agent stops
Locals(request_, response_, failures_, type_idx_, calls_) ==
    IF pc' \in Stopped \cup {"idle"}
    THEN /\ request' = NoRequest
         /\ response' = NoResponse
         /\ failures' = <<>>
         /\ type_idx' = 0
         /\ calls' = <<>>
    ELSE /\ request' = request_
         /\ response' = response_
         /\ failures' = failures_
         /\ type_idx' = type_idx_
         /\ calls' = calls_

\* SmAgent::start, up to the call of check_state_store
Start(connected) ==
    /\ pc \in Stopped
    /\ nstarts < MaxStarts
    /\ nstarts' = nstarts + 1
    /\ pc' = IF connected THEN "check_state_store" ELSE "exited"
    /\ published' = <<>>
    /\ loaded' = NoOperation
    /\ UNCHANGED <<journal, nrequests>>
    /\ UNCHANGED <<request, response, failures, type_idx, calls>>
    /\ UNCHANGED interrupted
    /\ UNCHANGED <<converter_vars, mapper_vars, cert_vars>>
    /\ RecordSucceeded

\* SmAgent::check_state_store
CheckStateStore(sent) ==
    /\ pc = "check_state_store"
    /\ LET state == check_state_store_load(journal) IN
       IF state.operation_id.some /\ state.operation.some
       THEN Publish(sent,
                <<StatusMessage(
                    check_state_store_topic(
                        SoftwareOperation_from_str(state.operation.val)),
                    check_state_store_response(state.operation_id.val))>>,
                "publish_capabilities")
       ELSE /\ pc' = "publish_capabilities"
            /\ UNCHANGED published
    /\ loaded' = IF pc' \in Stopped THEN NoOperation
                 ELSE check_state_store_load(journal)
    /\ UNCHANGED <<journal, nrequests, nstarts>>
    /\ UNCHANGED <<request, response, failures, type_idx, calls>>
    /\ UNCHANGED interrupted
    /\ UNCHANGED <<converter_vars, mapper_vars, cert_vars>>
    /\ RecordSucceeded

\* publish_capabilities, and SmAgent::subscribe_and_process up to its loop
PublishCapabilities(sent) ==
    /\ pc = "publish_capabilities"
    /\ Publish(sent, capabilities, "idle")
    /\ loaded' = IF pc' \in Stopped THEN NoOperation ELSE loaded
    /\ UNCHANGED <<journal, nrequests, nstarts>>
    /\ UNCHANGED <<request, response, failures, type_idx, calls>>
    /\ interrupted' = None
    /\ UNCHANGED <<converter_vars, mapper_vars, cert_vars>>
    /\ RecordSucceeded

\* Receive writing the journal entry before the payload is parsed
Receive_stores_before_parsing(message, sent) ==
    /\ pc = "idle"
    /\ nrequests < MaxRequests
    /\ nrequests' = nrequests + 1
    /\ IF SoftwareOperation_from(message.topic) = "todo"
       THEN pc' = "panicked" /\ UNCHANGED published
       ELSE IF message.valid
       THEN /\ pc' = IF SoftwareOperation_from(message.topic) = "SoftwareUpdates"
                     THEN "u_store" ELSE "l_store"
            /\ UNCHANGED published
       ELSE Publish(sent,
                <<TextMessage(
                    IF SoftwareOperation_from(message.topic) = "SoftwareUpdates"
                    THEN response_topic_update ELSE response_topic_list,
                    "Parsing error", FALSE)>>,
                "exited")
    /\ Locals(message, response, failures, type_idx, calls)
    /\ loaded' = IF pc' \in Stopped THEN NoOperation ELSE loaded
    /\ journal' = IF SoftwareOperation_from(message.topic) = "todo"
                  THEN journal
                  ELSE AgentStateRepository_store(
                           State(Some(message.id),
                                 Some(IF SoftwareOperation_from(message.topic)
                                         = "SoftwareUpdates"
                                      THEN "update" ELSE "list")))
    /\ UNCHANGED nstarts
    /\ UNCHANGED interrupted
    /\ UNCHANGED <<converter_vars, mapper_vars, cert_vars>>
    /\ RecordSucceeded

\* SmAgent::subscribe_and_process: the next request, and the head of the
\* handler of its operation (from_slice and its Err arm)
Receive(message, sent) ==
    /\ pc = "idle"
    /\ nrequests < MaxRequests
    /\ nrequests' = nrequests + 1
    /\ IF SoftwareOperation_from(message.topic) = "todo"
       THEN pc' = "panicked" /\ UNCHANGED published
       ELSE IF message.valid
       THEN /\ pc' = IF SoftwareOperation_from(message.topic) = "SoftwareUpdates"
                     THEN "u_store" ELSE "l_store"
            /\ UNCHANGED published
       ELSE Publish(sent,
                <<TextMessage(
                    IF SoftwareOperation_from(message.topic) = "SoftwareUpdates"
                    THEN response_topic_update ELSE response_topic_list,
                    "Parsing error", FALSE)>>,
                "exited")
    /\ Locals(message, response, failures, type_idx, calls)
    /\ loaded' = IF pc' \in Stopped THEN NoOperation ELSE loaded
    /\ UNCHANGED <<journal, nstarts>>
    /\ UNCHANGED interrupted
    /\ UNCHANGED <<converter_vars, mapper_vars, cert_vars>>
    /\ RecordSucceeded

\* UpdateStore going on when store has failed
UpdateStore_ignores_error(stored) ==
    /\ pc = "u_store"
    /\ journal' = IF stored
                  THEN AgentStateRepository_store(update_request_state(request.id))
                  ELSE journal
    /\ pc' = "u_executing"
    /\ Locals(request, response, failures, type_idx, calls)
    /\ loaded' = IF pc' \in Stopped THEN NoOperation ELSE loaded
    /\ UNCHANGED <<published, nrequests, nstarts>>
    /\ UNCHANGED interrupted
    /\ UNCHANGED <<converter_vars, mapper_vars, cert_vars>>
    /\ RecordSucceeded

\* handle_software_update_request: persistance_store.store(..).await?
UpdateStore(stored) ==
    /\ pc = "u_store"
    /\ journal' = IF stored
                  THEN AgentStateRepository_store(update_request_state(request.id))
                  ELSE journal
    /\ pc' = IF stored THEN "u_executing" ELSE "exited"
    /\ Locals(request, response, failures, type_idx, calls)
    /\ loaded' = IF pc' \in Stopped THEN NoOperation ELSE loaded
    /\ UNCHANGED <<published, nrequests, nstarts>>
    /\ UNCHANGED interrupted
    /\ UNCHANGED <<converter_vars, mapper_vars, cert_vars>>
    /\ RecordSucceeded

\* handle_software_update_request: publish_status_executing, then the response
\* and the failures the loop starts from
UpdatePublishExecuting(sent) ==
    /\ pc = "u_executing"
    /\ Publish(sent,
           <<StatusMessage(response_topic_update,
                           publish_status_executing_response(request.id))>>,
           IF request.update_list = <<>> THEN "u_list" ELSE "u_prepare")
    /\ Locals(request, update_response_new(request.id), <<>>, 1, <<>>)
    /\ loaded' = IF pc' \in Stopped THEN NoOperation ELSE loaded
    /\ UNCHANGED <<journal, nrequests, nstarts>>
    /\ UNCHANGED interrupted
    /\ UNCHANGED <<converter_vars, mapper_vars, cert_vars>>
    /\ RecordSucceeded

\* the response after a failure of plugin.prepare()
prepare_failed(response_) ==
    [response_ EXCEPT !.reason = Some("Failed prepare stage")]

\* handle_software_update_request, one software type: by_software_type(..)
\* .unwrap() and plugin.prepare()
UpdatePrepare(prepared, sent) ==
    /\ pc = "u_prepare"
    /\ LET software_list_type == request.update_list[type_idx] IN
       IF ~by_software_type(software_list_type.plugin_type).some
       THEN /\ pc' = "panicked"
            /\ UNCHANGED published
       ELSE IF prepared
       THEN /\ pc' = "u_modules"
            /\ UNCHANGED published
       ELSE Publish(sent,
                <<StatusMessage(response_topic_update, prepare_failed(response))>>,
                "u_modules")
    /\ Locals(request,
              IF prepared THEN response ELSE prepare_failed(response),
              failures, type_idx,
              Append(calls, Call("prepare",
                                 request.update_list[type_idx].plugin_type, "",
                                 prepared)))
    /\ loaded' = IF pc' \in Stopped THEN NoOperation ELSE loaded
    /\ UNCHANGED <<journal, nrequests, nstarts>>
    /\ UNCHANGED interrupted
    /\ UNCHANGED <<converter_vars, mapper_vars, cert_vars>>
    /\ RecordSucceeded

\* handle_software_update_request, one software type: install_or_remove(..)?,
\* plugin.finalize()? and failures.push; `finalized` is false when one of the
\* two returns its error (become_user for the first, the plugin for the second)
UpdateModules(outcomes, finalized) ==
    /\ pc = "u_modules"
    /\ LET software_list_type == request.update_list[type_idx]
           plugin == by_software_type(software_list_type.plugin_type).val
           r == install_or_remove(software_list_type.list, plugin, outcomes, 1,
                                  response, <<>>, calls)
       IN  /\ DOMAIN outcomes = DOMAIN software_list_type.list
           /\ pc' = IF ~finalized THEN "exited"
                    ELSE IF type_idx < Len(request.update_list)
                    THEN "u_prepare" ELSE "u_list"
           /\ Locals(request, r.response,
                     Append(failures,
                            [plugin_type |-> plugin, list |-> r.failures_modules]),
                     type_idx + 1,
                     Append(r.calls, Call("finalize", plugin, "", finalized)))
    /\ loaded' = IF pc' \in Stopped THEN NoOperation ELSE loaded
    /\ UNCHANGED <<journal, published, nrequests, nstarts>>
    /\ UNCHANGED interrupted
    /\ UNCHANGED <<converter_vars, mapper_vars, cert_vars>>
    /\ RecordSucceeded

\* handle_software_update_request: plugins.list() and finalize_response
UpdateList(listed) ==
    /\ pc = "u_list"
    /\ pc' = IF listed THEN "u_publish" ELSE "exited"
    /\ Locals(request, finalize_response(response, plugins_list, failures),
              failures, type_idx, Append(calls, Call("list", "", "", listed)))
    /\ loaded' = IF pc' \in Stopped THEN NoOperation ELSE loaded
    /\ UNCHANGED <<journal, published, nrequests, nstarts>>
    /\ UNCHANGED interrupted
    /\ UNCHANGED <<converter_vars, mapper_vars, cert_vars>>
    /\ RecordSucceeded

\* handle_software_update_request: the publication of the response
UpdatePublish(sent) ==
    /\ pc = "u_publish"
    /\ Publish(sent, <<StatusMessage(response_topic_update, response)>>, "u_clear")
    /\ Locals(request, response, failures, type_idx, calls)
    /\ loaded' = IF pc' \in Stopped THEN NoOperation ELSE loaded
    /\ UNCHANGED <<journal, nrequests, nstarts>>
    /\ UNCHANGED interrupted
    /\ UNCHANGED <<converter_vars, mapper_vars, cert_vars>>
    /\ RecordSucceeded

\* handle_software_update_request: persistance_store.clear().await?
UpdateClear(cleared) ==
    /\ pc = "u_clear"
    /\ journal' = IF cleared THEN AgentStateRepository_clear ELSE journal
    /\ pc' = IF cleared THEN "idle" ELSE "exited"
    /\ Locals(request, response, failures, type_idx, calls)
    /\ loaded' = IF pc' \in Stopped THEN NoOperation ELSE loaded
    /\ UNCHANGED <<published, nrequests, nstarts>>
    /\ UNCHANGED interrupted
    /\ UNCHANGED <<converter_vars, mapper_vars, cert_vars>>
    /\ RecordSucceeded

\* handle_software_list_request: persistance_store.store(..).await?
ListStore(stored) ==
    /\ pc = "l_store"
    /\ journal' = IF stored
                  THEN AgentStateRepository_store(list_request_state(request.id))
                  ELSE journal
    /\ pc' = IF stored THEN "l_list" ELSE "exited"
    /\ Locals(request, response, failures, type_idx, calls)
    /\ loaded' = IF pc' \in Stopped THEN NoOperation ELSE loaded
    /\ UNCHANGED <<published, nrequests, nstarts>>
    /\ UNCHANGED interrupted
    /\ UNCHANGED <<converter_vars, mapper_vars, cert_vars>>
    /\ RecordSucceeded

\* handle_software_list_request: plugins.list() and the response
ListList(listed) ==
    /\ pc = "l_list"
    /\ pc' = IF listed THEN "l_publish" ELSE "exited"
    /\ Locals(request, list_response(request.id, plugins_list), failures, type_idx,
              calls)
    /\ loaded' = IF pc' \in Stopped THEN NoOperation ELSE loaded
    /\ UNCHANGED <<journal, published, nrequests, nstarts>>
    /\ UNCHANGED interrupted
    /\ UNCHANGED <<converter_vars, mapper_vars, cert_vars>>
    /\ RecordSucceeded

\* handle_software_list_request: the publication of the response
ListPublish(sent) ==
    /\ pc = "l_publish"
    /\ Publish(sent, <<StatusMessage(response_topic_list, response)>>, "l_clear")
    /\ Locals(request, response, failures, type_idx, calls)
    /\ loaded' = IF pc' \in Stopped THEN NoOperation ELSE loaded
    /\ UNCHANGED <<journal, nrequests, nstarts>>
    /\ UNCHANGED interrupted
    /\ UNCHANGED <<converter_vars, mapper_vars, cert_vars>>
    /\ RecordSucceeded

\* handle_software_list_request: persistance_store.clear().await?
ListClear(cleared) ==
    /\ pc = "l_clear"
    /\ journal' = IF cleared THEN AgentStateRepository_clear ELSE journal
    /\ pc' = IF cleared THEN "idle" ELSE "exited"
    /\ Locals(request, response, failures, type_idx, calls)
    /\ loaded' = IF pc' \in Stopped THEN NoOperation ELSE loaded
    /\ UNCHANGED <<published, nrequests, nstarts>>
    /\ UNCHANGED interrupted
    /\ UNCHANGED <<converter_vars, mapper_vars, cert_vars>>
    /\ RecordSucceeded

\* the process of the agent is killed
Crash ==
    /\ pc \in Running
    /\ pc' = "down"
    /\ Locals(request, response, failures, type_idx, calls)
    /\ loaded' = NoOperation
    /\ interrupted' = IF pc \in MidOperation THEN Some(request.id)
                      ELSE IF pc = "publish_capabilities" THEN None
                      ELSE interrupted
    /\ UNCHANGED <<journal, published, nrequests, nstarts>>
    /\ UNCHANGED <<converter_vars, mapper_vars, cert_vars>>
    /\ RecordSucceeded

AgentInit ==
    /\ ConverterNew
    /\ AgentDown
    /\ MapperNew
    /\ CertNew
    /\ journal \in JournalFiles

AgentNext ==
    \/ \E connected \in BOOLEAN : Start(connected)
    \/ \E sent \in BOOLEAN : CheckStateStore(sent)
    \/ \E sent \in BOOLEAN : PublishCapabilities(sent)
    \/ \E message \in Requests, sent \in BOOLEAN : Receive(message, sent)
    \/ \E stored \in BOOLEAN : UpdateStore(stored)
    \/ \E sent \in BOOLEAN : UpdatePublishExecuting(sent)
    \/ \E prepared \in BOOLEAN, sent \in BOOLEAN : UpdatePrepare(prepared, sent)
    \/ \E outcomes \in UNION {[1..n -> BOOLEAN] : n \in 1..2},
          finalized \in BOOLEAN : UpdateModules(outcomes, finalized)
    \/ \E listed \in BOOLEAN : UpdateList(listed)
    \/ \E sent \in BOOLEAN : UpdatePublish(sent)
    \/ \E cleared \in BOOLEAN : UpdateClear(cleared)
    \/ \E stored \in BOOLEAN : ListStore(stored)
    \/ \E listed \in BOOLEAN : ListList(listed)
    \/ \E sent \in BOOLEAN : ListPublish(sent)
    \/ \E cleared \in BOOLEAN : ListClear(cleared)
    \/ Crash

AgentSpec == AgentInit /\ [][AgentNext]_vars

(***************************************************************************)
(* The journal of the agent (claims C8, C9, C10).                          *)
(***************************************************************************)
\* the agent is in the handler of the request it has accepted
InHandler == pc \in {"u_store", "u_executing", "u_prepare", "u_modules", "u_list",
                     "u_publish", "u_clear", "l_store", "l_list", "l_publish",
                     "l_clear"}

\* the journal entry of the request being handled
EntryOf(request_) ==
    [readable |-> TRUE,
     state |-> [operation_id |-> Some(request_.id),
                operation |-> Some(IF request_.topic = request_topic_update
                                   THEN "update" ELSE "list")]]

\* the step publishes a status message
PublishesStatus ==
    /\ Len(published') = Len(published) + 1
    /\ published'[Len(published')].kind = "status"

\* the last message published is a terminal status of the journal's entry
TerminalPublished ==
    /\ published # <<>>
    /\ journal.state.operation_id.some
    /\ LET m == published[Len(published)] IN
       /\ m.kind = "status"
       /\ m.response.status \in {"Successful", "Failed"}
       /\ m.response.id = journal.state.operation_id.val
       /\ m.topic = IF journal.state.operation = Some("update")
                    THEN response_topic_update ELSE response_topic_list

\* C8: whenever the agent publishes a status for the request it handles, the
\* journal already holds the entry (id, kind) of that request; and the journal
\* is cleared only in a state whose last published message is the terminal
\* status of the entry.
C8_JournalBracketsStatus ==
    [][/\ (InHandler /\ PublishesStatus)
          => /\ journal = EntryOf(request)
             /\ published'[Len(published')].response.id = request.id
       /\ (journal # AgentStateRepository_clear /\ journal' = AgentStateRepository_clear)
          => TerminalPublished]_vars

C8_Witness ==
    /\ pc = "idle"
    /\ nrequests = 1
    /\ journal = AgentStateRepository_clear
    /\ Len(published) >= 4
    /\ published[Len(published) - 1].kind = "status"
    /\ published[Len(published) - 1].response.status = "Executing"
    /\ published[Len(published)].kind = "status"
    /\ published[Len(published)].response.status = "Successful"

\* the journal held a live entry of a known kind when the agent started
LoadedLive ==
    /\ pc \in Running \ {"check_state_store"}
    /\ loaded.operation_id.some
    /\ loaded.operation.some

\* C9: an agent started on a journal with a live entry (id, kind) has, as the
\* first message it published, a Failed status with that id and the reason
\* "unfinished operation request" on the response topic of the kind; nothing
\* is published and no request is taken before check_state_store.
C9_RecoveryPublishesFailed ==
    /\ (LoadedLive /\ loaded.operation.val \in {"list", "update"})
       => /\ published # <<>>
          /\ published[1] =
               [kind |-> "status",
                topic |-> IF loaded.operation.val = "list"
                          THEN "tedge/commands/res/software/list"
                          ELSE "tedge/commands/res/software/update",
                response |-> [id |-> loaded.operation_id.val,
                              status |-> "Failed",
                              reason |-> Some("unfinished operation request"),
                              current_software_list |-> None,
                              failures |-> None]]
    /\ pc = "check_state_store" => published = <<>> /\ request = NoRequest

C9_Witness ==
    /\ LoadedLive
    /\ loaded.operation.val = "list"
    /\ pc = "u_publish"
    /\ Len(published) = 4

\* C10: once check_state_store has published the Failed status of a live
\* journal entry, the journal is empty.
C10_JournalEmptyAfterRecovery ==
    (pc = "publish_capabilities" /\ LoadedLive)
    => check_state_store_load(journal) = NoOperation

\* C11: when the agent was killed between writing the journal entry of a
\* request and publishing the response of its handler, the next
\* check_state_store that completes has published, as the first message of
\* that start, a Failed status with the id of that request on a response topic.
C11_CrashSurfacesFailure ==
    (pc = "publish_capabilities" /\ interrupted.some)
    => /\ Len(published) = 1
       /\ published[1].kind = "status"
       /\ published[1].response.status = "Failed"
       /\ published[1].response.id = interrupted.val
       /\ published[1].topic \in {response_topic_list, response_topic_update}

C11_Witness ==
    /\ pc = "publish_capabilities"
    /\ interrupted = Some(2)
    /\ nrequests = 1
    /\ nstarts = 2

(***************************************************************************)
(* The order of the statuses of an operation (claim C12).                  *)
(***************************************************************************)
\* the i-th message published since the start is a Successful or Failed status
Terminal(i) ==
    /\ published[i].kind = "status"
    /\ published[i].response.status \in {"Successful", "Failed"}

\* an Executing status with the id and the topic of the i-th message was
\* published before it
ExecutingBefore(i) ==
    \E j \in 1..(i - 1) :
        /\ published[j].kind = "status"
        /\ published[j].response.status = "Executing"
        /\ published[j].response.id = published[i].response.id
        /\ published[j].topic = published[i].topic

\* the i-th message is the Failed status of check_state_store
Recovery(i) ==
    published[i].response.reason = Some("unfinished operation request")

\* C12, as stated: every Successful or Failed status published on a response
\* topic comes after an Executing status with the same id on that topic.
C12_ExecutingBeforeTerminal ==
    \A i \in DOMAIN published : Terminal(i) => ExecutingBefore(i)

\* C12, amended: every Successful or Failed status that the handler of a
\* software update publishes comes after the Executing status of the same id
\* on the update response topic; the response of a list request and the
\* Failed status of check_state_store have no Executing before them.
C12_UpdateExecutingBeforeTerminal ==
    \A i \in DOMAIN published :
        (Terminal(i) /\ published[i].topic = response_topic_update /\ ~Recovery(i))
        => ExecutingBefore(i)

C12_Witness ==
    /\ pc = "u_clear"
    /\ Len(published) = 5
    /\ Terminal(4) /\ published[4].response.reason = Some("Failed prepare stage")
    /\ Terminal(5) /\ published[5].response.status = "Failed"
    /\ ExecutingBefore(5)

(***************************************************************************)
(* One live operation (claim C13).                                         *)
(***************************************************************************)
\* the step writes the journal entry of the request the agent has accepted
StoresEntry ==
    /\ pc \in {"u_store", "l_store"}
    /\ journal' = EntryOf(request)

\* the journal holds the entry (id, kind) of an operation
LiveEntry ==
    /\ check_state_store_load(journal).operation_id.some
    /\ check_state_store_load(journal).operation.some

\* C13: the agent writes the journal entry of a request only when the journal
\* holds no live entry, that is when the entry of the request before it, if
\* any, has been cleared.
C13_OneLiveOperation ==
    [][StoresEntry => ~LiveEntry]_vars

(***************************************************************************)
(* Child devices and the size gate of the converter (claims C14, C15, C16).*)
(***************************************************************************)
\* the step is a call of convert on a measurement of a child device
ConvertsChildMeasurement ==
    /\ last'.op = "convert"
    /\ IsChildMeasurement(last'.input)

\* the 101 line that creates the child device c
ChildCreation(c) ==
    [topic |-> "c8y/s/us",
     payload |-> "101," \o c \o "," \o c \o ",thin-edge.io-child",
     retain |-> FALSE]

\* the Cumulocity JSON of the measurement `message` of the child c
ChildJson(c, message) ==
    [topic |-> "c8y/measurement/measurements/create",
     payload |-> "{type:ThinEdgeMeasurement,externalSource:" \o c \o ","
                 \o message.payload \o "}",
     retain |-> FALSE]

\* C14: a successful conversion of a measurement of a child c returns the 101
\* line of c followed by the Cumulocity JSON when no measurement of c has been
\* converted before, and the Cumulocity JSON alone otherwise, whatever was
\* converted for the other children in between.
C14_ChildCreatedOnce ==
    [][(ConvertsChildMeasurement /\ last'.res.kind = "ok")
       => LET c == ChildOf(last'.input) IN
          out' = IF c \notin converted
                 THEN <<ChildCreation(c), ChildJson(c, last'.input)>>
                 ELSE <<ChildJson(c, last'.input)>>]_vars

C14_Witness ==
    /\ last.op = "convert"
    /\ last.input.topic = "tedge/measurements/child1"
    /\ converted = {"child1", "child2"}
    /\ out = <<ChildJson("child1", last.input)>>
    /\ ~panicked

\* C15: a refused measurement of a child that is not in the child set returns
\* one message, on the errors topic, and leaves the child set as it was; and
\* the first measurement converted for a child after such a refusal returns
\* the 101 line of the child before its Cumulocity JSON.
C15_InvalidDoesNotCreateChild ==
    [][/\ (/\ ConvertsChildMeasurement
           /\ last'.res.kind = "err"
           /\ ChildOf(last'.input) \notin children)
          => /\ Len(out') = 1
             /\ out'[1].topic = "tedge/errors"
             /\ children' = children
       /\ (/\ ConvertsChildMeasurement
           /\ last'.res.kind = "ok"
           /\ ChildOf(last'.input) \in rejected
           /\ ChildOf(last'.input) \notin converted)
          => /\ Len(out') = 2
             /\ out'[1] = ChildCreation(ChildOf(last'.input))
             /\ out'[2].topic = "c8y/measurement/measurements/create"]_vars

C15_Witness ==
    /\ last.op = "convert"
    /\ last.input = Message_new("tedge/measurements/child1", "m1")
    /\ "child1" \in rejected
    /\ Len(out) = 2
    /\ out[1] = ChildCreation("child1")

\* the topics the converter publishes to Cumulocity on
CloudTopics == {"c8y/s/us", "c8y/measurement/measurements/create"}

\* C16: the conversion of a message whose payload is longer than the
\* threshold, on whatever topic, returns exactly one message, on the errors
\* topic, and nothing on a cloud topic; the converter does not panic and its
\* child set and its reconciler are left as they were.
C16_OversizeIsOnlyAnError ==
    [][(last'.op = "convert" /\ payload_len(last'.input.payload) > 16384)
       => /\ Len(out') = 1
          /\ out'[1].topic = "tedge/errors"
          /\ \A i \in DOMAIN out' : out'[i].topic \notin CloudTopics
          /\ ~panicked'
          /\ children' = children
          /\ alarm_converter' = alarm_converter]_vars

C16_Witness ==
    /\ last.op = "convert"
    /\ last.input = Message_new("foo/bar", BigPayload)
    /\ out = <<Message_new("tedge/errors", "SizeExceeded")>>
    /\ children = {"child1"}
    /\ ~panicked

(***************************************************************************)
(* Mapper: process_messages and process_message, over any Converter.       *)
(* What the converter returns for a message is chosen by the environment;  *)
(* a published message is recorded by where it comes from.                 *)
(***************************************************************************)
MaxInputs == 2
MaxOutputs == 2
MaxInitMessages == 1
MaxSyncMessages == 1

\* a message on the output channel: the k-th of the len messages returned for
\* the serial-th message processed; `late` when that message was taken from
\* the input after the sync window
Entry(origin, serial_, k, len, late) ==
    [origin |-> origin, serial |-> serial_, k |-> k, len |-> len, late |-> late,
     message |-> None]

\* the messages a call returned, as entries
Returned(origin, serial_, len, late) ==
    [k \in 1..len |-> Entry(origin, serial_, k, len, late)]

\* create_mapper: the name of the mapper, its health check topics and its health
\* status topic
app_name == "mapper_under_test"

health_check_topics == {"tedge/health-check", "tedge/health-check/" \o app_name}

health_status_topic == "tedge/health/" \o app_name

\* self.health_check_topics.accept(&message) answering for the named topic only
health_check_topics_accept_named_only(topic) ==
    topic = "tedge/health-check/" \o app_name

\* self.health_check_topics.accept(&message)
health_check_topics_accept(topic) == topic \in health_check_topics

\* process::id()
process_id == "4242"

\* process_message: json!({"status": "up", "pid": process::id()}) on the health
\* status topic
health_message ==
    Message_new(health_status_topic, "{pid:" \o process_id \o ",status:up}")

\* the health status message, as the only message returned for its input
HealthEntry(serial_, late) ==
    [Entry("inbound", serial_, 1, 1, late) EXCEPT !.message = Some(health_message)]

\* the topics of the inbound messages: the health check topics, and a topic of
\* the converter
InboundTopics == health_check_topics \cup {"tedge/measurements"}

\* the topic of a message returned by sync_messages
SyncTopic == "tedge/alarms/major/temperature"

\* process_messages: the init messages are sent
PublishInitMessages(init_messages) ==
    /\ phase = "init"
    /\ output' = output \o Returned("init", 0, init_messages, FALSE)
    /\ phase' = "window"
    /\ UNCHANGED <<step, current, converted_messages, taken, serial, sync_queue,
                   flushes, ended_by>>
    /\ UNCHANGED <<converter_vars, agent_vars, cert_vars>>
    /\ UNCHANGED output_closed

\* NextInbound leaving the sync phase for the loop that follows the flush
NextInbound_ends_window(topic) ==
    /\ phase \in {"window", "post"}
    /\ step = "next"
    /\ ended_by # "closed"
    /\ taken < MaxInputs
    /\ taken' = taken + 1
    /\ serial' = serial + 1
    /\ phase' = "post"
    /\ current' = [origin |-> "inbound", late |-> phase # "window", topic |-> topic]
    /\ IF health_check_topics_accept(topic)
       THEN /\ converted_messages' = <<HealthEntry(serial', phase # "window")>>
            /\ step' = "send"
       ELSE /\ converted_messages' = <<>>
            /\ step' = "convert"
    /\ UNCHANGED <<output, sync_queue, flushes, ended_by>>
    /\ UNCHANGED <<converter_vars, agent_vars, cert_vars>>
    /\ UNCHANGED output_closed

\* NextInbound taking messages from the input while the flush is going on
NextInbound_during_flush(topic) ==
    /\ phase \in {"window", "post", "flush"}
    /\ step = "next"
    /\ ended_by # "closed"
    /\ taken < MaxInputs
    /\ taken' = taken + 1
    /\ serial' = serial + 1
    /\ current' = [origin |-> "inbound", late |-> phase # "window", topic |-> topic]
    /\ IF health_check_topics_accept(topic)
       THEN /\ converted_messages' = <<HealthEntry(serial', phase # "window")>>
            /\ step' = "send"
       ELSE /\ converted_messages' = <<>>
            /\ step' = "convert"
    /\ UNCHANGED <<phase, output, sync_queue, flushes, ended_by>>
    /\ UNCHANGED <<converter_vars, agent_vars, cert_vars>>
    /\ UNCHANGED output_closed

\* the two loops on self.input.next(): a message is taken, and process_message
\* answers a health check or calls the converter
NextInbound(topic) ==
    /\ phase \in {"window", "post"}
    /\ step = "next"
    /\ ended_by # "closed"
    /\ taken < MaxInputs
    /\ taken' = taken + 1
    /\ serial' = serial + 1
    /\ current' = [origin |-> "inbound", late |-> phase # "window", topic |-> topic]
    /\ IF health_check_topics_accept(topic)
       THEN /\ converted_messages' = <<HealthEntry(serial', phase # "window")>>
            /\ step' = "send"
       ELSE /\ converted_messages' = <<>>
            /\ step' = "convert"
    /\ UNCHANGED <<phase, output, sync_queue, flushes, ended_by>>
    /\ UNCHANGED <<converter_vars, agent_vars, cert_vars>>
    /\ UNCHANGED output_closed

\* process_message: self.converter.convert(&message).await returns len messages
ConvertReturns(len) ==
    /\ phase \in {"window", "flush", "post"}
    /\ step = "convert"
    /\ converted_messages' = Returned(current.origin, serial, len, current.late)
    /\ step' = IF len = 0 THEN "next" ELSE "send"
    /\ current' = IF step' = "next" THEN NoCurrent ELSE current
    /\ UNCHANGED <<phase, output, taken, serial, sync_queue, flushes, ended_by>>
    /\ UNCHANGED <<converter_vars, agent_vars, cert_vars>>
    /\ UNCHANGED output_closed

\* process_message: the converter panics, and the task of the mapper with it
ConvertPanics ==
    /\ phase \in {"window", "flush", "post"}
    /\ step = "convert"
    /\ phase' = "panicked"
    /\ step' = "next"
    /\ UNCHANGED <<current, converted_messages, output, taken, serial, sync_queue,
                   flushes, ended_by>>
    /\ UNCHANGED <<converter_vars, agent_vars, cert_vars>>
    /\ UNCHANGED output_closed

\* Send taking the messages from the end of the vector
Send_reversed ==
    /\ phase \in {"window", "flush", "post"}
    /\ step = "send"
    /\ ~output_closed
    /\ output' = Append(output, converted_messages[Len(converted_messages)])
    /\ converted_messages' = SubSeq(converted_messages, 1, Len(converted_messages) - 1)
    /\ step' = IF converted_messages' = <<>> THEN "next" ELSE "send"
    /\ current' = IF step' = "next" THEN NoCurrent ELSE current
    /\ UNCHANGED <<phase, taken, serial, sync_queue, flushes, ended_by>>
    /\ UNCHANGED <<converter_vars, agent_vars, cert_vars>>
    /\ UNCHANGED output_closed

\* process_message: self.output.send(..).await of the next message to send;
\* the channel is unbounded, the send never waits
Send ==
    /\ phase \in {"window", "flush", "post"}
    /\ step = "send"
    /\ ~output_closed
    /\ output' = Append(output, Head(converted_messages))
    /\ converted_messages' = Tail(converted_messages)
    /\ step' = IF converted_messages' = <<>> THEN "next" ELSE "send"
    /\ current' = IF step' = "next" THEN NoCurrent ELSE current
    /\ UNCHANGED <<phase, taken, serial, sync_queue, flushes, ended_by>>
    /\ UNCHANGED <<converter_vars, agent_vars, cert_vars>>
    /\ UNCHANGED output_closed

\* the end of the sync phase: self.converter.sync_messages() returns len messages
StartFlush(len, cause) ==
    /\ phase' = "flush"
    /\ step' = "next"
    /\ current' = NoCurrent
    /\ converted_messages' = <<>>
    /\ sync_queue' = [i \in 1..len |-> "data"]
    /\ flushes' = flushes + 1
    /\ ended_by' = cause
    /\ UNCHANGED <<output, taken, serial>>
    /\ UNCHANGED <<converter_vars, agent_vars, cert_vars>>
    /\ UNCHANGED output_closed

\* tokio::time::timeout(SYNC_WINDOW, ..): the window expires while the loop
\* waits, for the input or for the converter; a conversion that is going on is
\* dropped with the message it was converting
WindowExpires(len) ==
    /\ phase = "window"
    /\ step \in {"next", "convert"}
    /\ StartFlush(len, "timeout")

\* self.input.next() returns None inside the window: the loop of the sync phase
\* is over before the window expires
InputEndsInWindow(len) ==
    /\ phase = "window"
    /\ step = "next"
    /\ StartFlush(len, "closed")

\* the loop on the sync messages: process_message on the next of them
NextSync ==
    /\ phase = "flush"
    /\ step = "next"
    /\ sync_queue # <<>>
    /\ sync_queue' = Tail(sync_queue)
    /\ serial' = serial + 1
    /\ current' = [origin |-> "sync", late |-> FALSE, topic |-> SyncTopic]
    /\ converted_messages' = <<>>
    /\ step' = "convert"
    /\ UNCHANGED <<phase, output, taken, flushes, ended_by>>
    /\ UNCHANGED <<converter_vars, agent_vars, cert_vars>>
    /\ UNCHANGED output_closed

\* the loop on the sync messages is over
SyncDone ==
    /\ phase = "flush"
    /\ step = "next"
    /\ sync_queue = <<>>
    /\ phase' = "post"
    /\ UNCHANGED <<step, current, converted_messages, output, taken, serial,
                   sync_queue, flushes, ended_by>>
    /\ UNCHANGED <<converter_vars, agent_vars, cert_vars>>
    /\ UNCHANGED output_closed

\* self.input.next() returns None in the last loop: process_messages returns
InputEnds ==
    /\ phase = "post"
    /\ step = "next"
    /\ phase' = "done"
    /\ UNCHANGED <<step, current, converted_messages, output, taken, serial,
                   sync_queue, flushes, ended_by>>
    /\ UNCHANGED <<converter_vars, agent_vars, cert_vars>>
    /\ UNCHANGED output_closed

MapperNext ==
    \/ \E init_messages \in 0..MaxInitMessages : PublishInitMessages(init_messages)
    \/ \E topic \in InboundTopics : NextInbound(topic)
    \/ \E len \in 0..MaxOutputs : ConvertReturns(len)
    \/ ConvertPanics
    \/ Send
    \/ \E len \in 0..MaxSyncMessages : WindowExpires(len)
    \/ \E len \in 0..MaxSyncMessages : InputEndsInWindow(len)
    \/ NextSync
    \/ SyncDone
    \/ InputEnds

MapperSpec == Init /\ [][MapperNext]_vars

(***************************************************************************)
(* The order of the outputs of the mapper (claims C17, C18, C19).          *)
(***************************************************************************)
\* C17: on the output channel no init message comes after a message of another
\* origin, and no output of a sync message comes after an output of an inbound
\* message that was taken from the input after the sync window.
C17_PhasesAreOrdered ==
    \A i \in DOMAIN output : \A j \in DOMAIN output :
        i < j => /\ output[j].origin = "init" => output[i].origin = "init"
                 /\ output[j].origin = "sync"
                    => ~(output[i].origin = "inbound" /\ output[i].late)

C17_Witness ==
    /\ phase = "done"
    /\ Len(output) = 4
    /\ output[1].origin = "init"
    /\ output[2].origin = "inbound" /\ ~output[2].late
    /\ output[3].origin = "sync"
    /\ output[4].origin = "inbound" /\ output[4].late

\* the outputs of the messages processed are on the channel message after
\* message, those of one message in the order the converter returned them
InOrder(log) ==
    \A i \in 1..(Len(log) - 1) :
        log[i].origin # "init"
        => \/ /\ log[i + 1].serial = log[i].serial
              /\ log[i + 1].k = log[i].k + 1
           \/ /\ log[i + 1].serial > log[i].serial
              /\ log[i + 1].k = 1
              /\ log[i].k = log[i].len

\* every message returned for the messages processed so far is on the channel
AllSent(log) ==
    log # <<>> /\ log[Len(log)].origin # "init"
    => log[Len(log)].k = log[Len(log)].len

\* C18: the outputs returned for a message are sent in the order returned, and
\* when the next message is taken, from the input or from the sync messages,
\* all of them have been sent; in the sync phase, in the flush and after it.
C18_OutputsBeforeNextInput ==
    [][/\ InOrder(output')
       /\ serial' # serial => (converted_messages = <<>> /\ AllSent(output))]_vars

C18_Witness ==
    /\ phase = "post"
    /\ step = "next"
    /\ taken = 2
    /\ Len(output) = 4
    /\ output[1].origin = "inbound" /\ ~output[1].late /\ output[1].len = 2
    /\ output[3].origin = "inbound" /\ output[3].late /\ output[3].len = 2

FlushSyncMessages(old_order, pending_order) ==
    /\ flushes = 0
    /\ ~panicked
    /\ LET r == sync_messages(alarm_converter, old_order, pending_order) IN
       /\ alarm_converter' = r.alarm_converter
       /\ out' = r.sync_messages
       /\ sync_queue' = r.sync_messages
       /\ last' = [op |-> "sync_messages", pre |-> alarm_converter]
    /\ phase' = "flush"
    /\ flushes' = flushes + 1
    /\ ended_by' = "timeout"
    /\ UNCHANGED <<children, panicked, converted, rejected, received>>
    /\ UNCHANGED <<step, current, converted_messages, output, taken, serial>>
    /\ UNCHANGED <<agent_vars, cert_vars>>
    /\ UNCHANGED output_closed

\* ProcessSyncMessage sending the sync message itself
ProcessSyncMessage_publishes_message ==
    /\ phase = "flush"
    /\ sync_queue # <<>>
    /\ ~panicked
    /\ out' = <<Head(sync_queue)>>
    /\ output' = Append(output, Head(sync_queue))
    /\ last' = [op |-> "process_sync_message", input |-> Head(sync_queue),
                res |-> ok(<<Head(sync_queue)>>), pre |-> last.pre]
    /\ sync_queue' = Tail(sync_queue)
    /\ serial' = serial + 1
    /\ UNCHANGED <<children, panicked, alarm_converter, converted, rejected, received>>
    /\ UNCHANGED <<phase, step, current, converted_messages, taken, flushes, ended_by>>
    /\ UNCHANGED <<agent_vars, cert_vars>>
    /\ UNCHANGED output_closed

\* process_messages: process_message on the next sync message, which converts
\* it and sends what convert returned
ProcessSyncMessage ==
    /\ phase = "flush"
    /\ sync_queue # <<>>
    /\ ~panicked
    /\ LET message == Head(sync_queue)
           r == try_convert(children, message, [jwt |-> TRUE, spawn |-> TRUE])
       IN  /\ children' = r.children
           /\ panicked' = (r.res.kind = "panic")
           /\ out' = convert_wrap_errors(r.res)
           /\ output' = output \o convert_wrap_errors(r.res)
           /\ last' = [op |-> "process_sync_message", input |-> message, res |-> r.res,
                       pre |-> last.pre]
    /\ sync_queue' = Tail(sync_queue)
    /\ serial' = serial + 1
    /\ UNCHANGED <<alarm_converter, converted, rejected, received>>
    /\ UNCHANGED <<phase, step, current, converted_messages, taken, flushes, ended_by>>
    /\ UNCHANGED <<agent_vars, cert_vars>>
    /\ UNCHANGED output_closed

FlushNext ==
    \/ /\ flushes = 0
       /\ \E message \in LocalAlarmMessages : AlarmTryConvertAlarm(message)
    \/ /\ flushes = 0
       /\ \E message \in InternalAlarmMessages : AlarmProcessInternalAlarm(message)
    \/ \E old_order \in Orders(AlarmIds), pending_order \in Orders(AlarmIds) :
          FlushSyncMessages(old_order, pending_order)
    \/ ProcessSyncMessage

FlushSpec == Init /\ [][FlushNext]_vars

ProcessesSyncMessage == last'.op = "process_sync_message"

ConversionFailed ==
    /\ last.op = "convert"
    /\ last.res.kind # "ok"

\* C22: a message that convert cannot convert is reported by one message on
\* the errors topic and leaves the converter usable: the conversion does not
\* panic.
C22_ErrorsAreContained ==
    ConversionFailed
    => /\ ~panicked
       /\ Len(out) = 1
       /\ out[1].topic = "tedge/errors"

\* the template id of a SmartREST payload
TemplateOf(payload) == SubSeq(payload, 1, 3)

\* the last call of convert was on a cloud SmartREST message, of a size under
\* the threshold, whose template id is neither 528 nor 510 nor in the operation
\* registry
UnknownTemplate ==
    /\ last.op = "convert"
    /\ last.input.topic = "c8y/s/ds"
    /\ payload_len(last.input.payload) <= 16384
    /\ Len(last.input.payload) >= 3
    /\ TemplateOf(last.input.payload) \notin {"528", "510"} \cup DOMAIN operations

\* C23: a cloud SmartREST message with an unknown template id returns two
\* messages on c8y/s/us, the 501 line of the operation and then its 502 line.
C23_UnknownTemplateIsReported ==
    UnknownTemplate
    => /\ Len(out) = 2
       /\ out[1].topic = "c8y/s/us" /\ starts_with(out[1].payload, "501,")
       /\ out[2].topic = "c8y/s/us" /\ starts_with(out[2].payload, "502,")

\* the topic is none of those the converter routes
Unrouted(topic) ==
    /\ ~starts_with(topic, "tedge/measurements")
    /\ ~starts_with(topic, "tedge/alarms")
    /\ ~starts_with(topic, "c8y-internal/alarms")
    /\ topic \notin {"tedge/commands/res/software/list",
                     "tedge/commands/res/software/update",
                     "tedge/commands/res/control/restart", "c8y/s/ds"}

\* C24: a message on a topic outside the routing table, of a size under the
\* threshold, makes convert fail with UnsupportedTopic and return one message,
\* on the errors topic.
C24_UnsupportedTopicIsReported ==
    (/\ last.op = "convert"
     /\ Unrouted(last.input.topic)
     /\ payload_len(last.input.payload) <= 16384)
    => /\ last.res = err("UnsupportedTopic")
       /\ Len(out) = 1
       /\ out[1].topic = "tedge/errors"

\* the last call of convert was on a cloud SmartREST message that reached
\* process_smartrest with a template id
SmartRestProcessed ==
    /\ last.op = "convert"
    /\ last.input.topic = "c8y/s/ds"
    /\ payload_len(last.input.payload) <= 16384
    /\ Len(last.input.payload) >= 3

\* C25: a cloud SmartREST message is dispatched on its first three characters:
\* a well-formed 528 whose token is fetched returns one message on
\* tedge/commands/req/software/update, a well-formed 510 one message on
\* tedge/commands/req/control/restart; another id that is in the operation
\* registry returns no message once its command has run, and an id that is
\* not in the registry makes process_smartrest fail with UnknownOperation.
C25_SmartRestDispatch ==
    SmartRestProcessed
    => LET payload == last.input.payload
           id == TemplateOf(payload)
       IN  /\ (id = "528" /\ payload \in WellFormedSmartRest /\ last.env.jwt)
              => /\ Len(out) = 1
                 /\ out[1].topic = "tedge/commands/req/software/update"
           /\ (id = "510" /\ payload \in WellFormedSmartRest)
              => /\ Len(out) = 1
                 /\ out[1].topic = "tedge/commands/req/control/restart"
           /\ (id \notin {"528", "510"} /\ id \in DOMAIN operations /\ last.env.spawn)
              => /\ out = <<>>
                 /\ last.res = ok(<<>>)
           /\ (id \notin {"528", "510"} /\ id \notin DOMAIN operations)
              => /\ process_smartrest(payload, operations, last.env)
                       = err("UnknownOperation")
                 /\ out = <<>>

C25_Witness ==
    /\ SmartRestProcessed
    /\ last.input.payload = "528,dev,apt,curl"
    /\ last.env.jwt
    /\ Len(out) = 1
    /\ out[1].topic = "tedge/commands/req/software/update"
    /\ children = {"child1"}

\* the SmartREST template of the status of an operation
StatusTemplate(payload) ==
    IF payload = "{id:1,status:executing}" THEN "501,"
    ELSE IF payload = "{id:1,status:successful}" THEN "503,"
    ELSE "502,"

\* C26: the conversion of a software update response returns one SmartREST
\* line on c8y/s/us: 501 for the status executing, 503 for successful and 502
\* for failed.
C26_UpdateResponseIsMapped ==
    (/\ last.op = "convert"
     /\ last.input.topic = "tedge/commands/res/software/update"
     /\ last.input.payload \in UpdateResponsePayloads)
    => /\ Len(out) = 1
       /\ out[1].topic = "c8y/s/us"
       /\ starts_with(out[1].payload, StatusTemplate(last.input.payload))

(***************************************************************************)
(* The init messages of the Cumulocity converter (claim C27).              *)
(***************************************************************************)
INVENTORY_MANAGED_OBJECTS_TOPIC == "c8y/inventory/managedObjects/update"

\* RequestTopic::SoftwareListRequest
SoftwareListRequestTopic == "tedge/commands/req/software/list"

\* the fields device_name and device_type of the converter
device_name == "test"
device_type == "test_type"

\* The builders of try_init_messages in the order of their calls; 0 stands for
\* a start where none of them fails.
InitBuilders == 0..6

create_inventory_fragments_message(name) ==
    Message_new(INVENTORY_MANAGED_OBJECTS_TOPIC \o "/" \o name, "{c8y_Agent:{name:thin-edge.io}}")

create_supported_operations_fragments_message ==
    Message_new(SMARTREST_PUBLISH_TOPIC, "114,c8y_SoftwareUpdate,c8y_Restart")

create_device_data_fragments(name, type) ==
    Message_new(INVENTORY_MANAGED_OBJECTS_TOPIC \o "/" \o name, "{type:" \o type \o "}")

create_supported_log_types_message ==
    Message_new(SMARTREST_PUBLISH_TOPIC, "118,software-management")

create_get_pending_operations_message ==
    Message_new(SMARTREST_PUBLISH_TOPIC, "500")

create_get_software_list_message ==
    Message_new(SoftwareListRequestTopic, "{id:1}")

\* try_init_messages with the device data ahead of the supported operations
try_init_messages_device_data_first(failing) ==
    IF failing # 0 THEN err("InitBuilder")
    ELSE ok(<<create_inventory_fragments_message(device_name),
              create_device_data_fragments(device_name, device_type),
              create_supported_operations_fragments_message,
              create_supported_log_types_message,
              create_get_pending_operations_message,
              create_get_software_list_message>>)

\* CumulocityConverter::try_init_messages; every builder is followed by `?`, so
\* the first failing builder ends the call with its error
try_init_messages(failing) ==
    IF failing # 0 THEN err("InitBuilder")
    ELSE ok(<<create_inventory_fragments_message(device_name),
              create_supported_operations_fragments_message,
              create_device_data_fragments(device_name, device_type),
              create_supported_log_types_message,
              create_get_pending_operations_message,
              create_get_software_list_message>>)

\* Converter::init_messages: an error becomes one message on the errors topic
init_messages(failing) == convert_wrap_errors(try_init_messages(failing))

\* process_messages: init_messages of the converter, each message sent in turn
PublishConverterInitMessages(failing) ==
    /\ phase = "init"
    /\ last.op = "new"
    /\ out' = init_messages(failing)
    /\ last' = [op |-> "init_messages", failing |-> failing]
    /\ output' = output \o out'
    /\ phase' = "window"
    /\ UNCHANGED <<children, alarm_converter, panicked, converted, rejected, received>>
    /\ UNCHANGED <<step, current, converted_messages, taken, serial, sync_queue,
                   flushes, ended_by>>
    /\ UNCHANGED <<agent_vars, cert_vars>>
    /\ UNCHANGED output_closed

\* The start of the mapper over the Cumulocity converter: the init messages,
\* then the inbound messages of the sync window.
StartNext ==
    \/ \E failing \in InitBuilders : PublishConverterInitMessages(failing)
    \/ \E topic \in InboundTopics : NextInbound(topic)
    \/ \E len \in 0..MaxOutputs : ConvertReturns(len)
    \/ ConvertPanics
    \/ Send

StartSpec == Init /\ [][StartNext]_vars

\* what the six init messages are, in their order
SixInitMessages(msgs) ==
    /\ Len(msgs) = 6
    /\ msgs[1].topic = "c8y/inventory/managedObjects/update/test"
    /\ starts_with(msgs[1].payload, "{c8y_Agent:")
    /\ msgs[2].topic = "c8y/s/us"
    /\ starts_with(msgs[2].payload, "114")
    /\ msgs[3].topic = "c8y/inventory/managedObjects/update/test"
    /\ starts_with(msgs[3].payload, "{type:")
    /\ msgs[4].topic = "c8y/s/us"
    /\ starts_with(msgs[4].payload, "118")
    /\ msgs[5].topic = "c8y/s/us"
    /\ starts_with(msgs[5].payload, "500")
    /\ msgs[6].topic = "tedge/commands/req/software/list"

\* C27: when every builder succeeds, init_messages returns the six messages in
\* the order inventory fragments, supported operations (114), device data,
\* supported log types (118), pending operations (500), software list request,
\* and they are the first six messages of the output channel, in that order,
\* whatever the mapper sends afterwards.
C27_SixInitMessagesInOrder ==
    (last.op = "init_messages" /\ last.failing = 0)
    => /\ SixInitMessages(out)
       /\ Len(output) >= 6
       /\ SubSeq(output, 1, 6) = out

C27_Witness ==
    /\ last.op = "init_messages"
    /\ last.failing = 0
    /\ Len(out) = 6
    /\ Len(output) > 6
    /\ output[7].origin = "inbound"

(***************************************************************************)
(* The health check responder of the mapper (claim C28).                   *)
(***************************************************************************)
\* a message was taken from the input on one of the two health check topics
TakesHealthCheck ==
    /\ taken' = taken + 1
    /\ current'.topic \in {"tedge/health-check", "tedge/health-check/mapper_under_test"}

\* the answer to a health check is being sent
SendsHealthStatus ==
    /\ step = "send"
    /\ current.topic \in {"tedge/health-check", "tedge/health-check/mapper_under_test"}

\* the health status message: not retained, status up and the pid
IsHealthStatus(entry) ==
    /\ entry.message.some
    /\ entry.message.val.topic = "tedge/health/mapper_under_test"
    /\ entry.message.val.retain = FALSE
    /\ entry.message.val.payload = "{pid:4242,status:up}"

\* C28: a message taken on the common or on the named health check topic, in
\* the sync window as after it, is not passed to the converter; exactly one
\* message is sent for it, the non-retained health status message with status
\* up and the pid on the health status topic of the mapper.
C28_HealthCheckIsAnswered ==
    [][/\ TakesHealthCheck
          => /\ step' = "send"
             /\ Len(converted_messages') = 1
             /\ IsHealthStatus(converted_messages'[1])
       /\ SendsHealthStatus
          => /\ Len(converted_messages) = 1
             /\ output' = Append(output, converted_messages[1])
             /\ IsHealthStatus(output'[Len(output')])
             /\ step' = "next"
       /\ step' = "convert"
          => current'.topic \notin {"tedge/health-check",
                                    "tedge/health-check/mapper_under_test"}]_vars

C28_Witness ==
    \E i \in DOMAIN output : \E j \in DOMAIN output :
        /\ IsHealthStatus(output[i])
        /\ ~output[i].late
        /\ IsHealthStatus(output[j])
        /\ output[j].late

(***************************************************************************)
(* The plugin commands of a software update (claim C29).                   *)
(***************************************************************************)
\* the handler of an update request is past the announcement of Executing
UpdateRunning == pc \in {"u_prepare", "u_modules", "u_list", "u_publish", "u_clear"}

\* a command without its outcome
Command(call) == [command |-> call.command, plugin |-> call.plugin, module |-> call.module]

CommandsOf(log) == [i \in DOMAIN log |-> Command(log[i])]

\* the commands of one software type: prepare, its modules in their order,
\* finalize
CommandsOfType(software_list_type) ==
    <<[command |-> "prepare", plugin |-> software_list_type.plugin_type, module |-> ""]>>
    \o [i \in DOMAIN software_list_type.list |->
           [command |-> software_list_type.list[i].action,
            plugin |-> software_list_type.plugin_type,
            module |-> software_list_type.list[i].name]]
    \o <<[command |-> "finalize", plugin |-> software_list_type.plugin_type,
          module |-> ""]>>

\* the commands of an update list: its types in their order, then the list
RECURSIVE CommandsOfTypes(_)
CommandsOfTypes(update_list) ==
    IF update_list = <<>> THEN <<>>
    ELSE CommandsOfType(Head(update_list)) \o CommandsOfTypes(Tail(update_list))

CommandsOfUpdate(update_list) ==
    CommandsOfTypes(update_list) \o <<[command |-> "list", plugin |-> "", module |-> ""]>>

IsPrefix(a, b) == Len(a) <= Len(b) /\ SubSeq(b, 1, Len(a)) = a

\* the modules of plugin type t whose install or remove has failed
RECURSIVE FailedModules(_, _)
FailedModules(log, t) ==
    IF log = <<>> THEN <<>>
    ELSE LET call == Head(log) IN
         (IF /\ call.plugin = t
             /\ call.command \in {"install", "remove"}
             /\ ~call.ok
          THEN <<call.module>> ELSE <<>>) \o FailedModules(Tail(log), t)

\* the response carries the software list and the failures: the terminal status
IsTerminalStatus(message) ==
    /\ message.kind = "status"
    /\ message.topic = response_topic_update
    /\ message.response.current_software_list.some

\* C29: the plugin commands of an update request are run in the order of the
\* request: per software type one prepare, the install or remove of each module
\* in the listed order, one finalize, and after the last type one list; a module
\* whose command fails is recorded in the failures of its type and the commands
\* go on; the status with the software list and the failures is published only
\* when all these commands have been run.
C29_UpdateRunsCommandsInOrder ==
    /\ UpdateRunning
       => IsPrefix(CommandsOf(calls), CommandsOfUpdate(request.update_list))
    /\ pc \in {"u_publish", "u_clear"}
       => /\ CommandsOf(calls) = CommandsOfUpdate(request.update_list)
          /\ response.current_software_list = Some(plugins_list)
          /\ response.failures.some
          /\ Len(response.failures.val) = Len(request.update_list)
          /\ \A t \in DOMAIN request.update_list :
                /\ response.failures.val[t].plugin_type
                      = request.update_list[t].plugin_type
                /\ response.failures.val[t].list
                      = FailedModules(calls, request.update_list[t].plugin_type)
    /\ pc = "u_clear"
       => /\ published # <<>>
          /\ published[Len(published)]
                = StatusMessage(response_topic_update, response)
          /\ IsTerminalStatus(published[Len(published)])
    /\ (pc \in {"u_executing", "u_prepare", "u_modules", "u_list", "u_publish"}
        /\ nrequests = 1)
       => \A i \in DOMAIN published : ~IsTerminalStatus(published[i])

\* two types were processed, a module of the first failed, and the terminal
\* status is published
C29_Witness ==
    /\ pc = "u_clear"
    /\ Len(request.update_list) = 2
    /\ response.failures.val[1].list # <<>>
    /\ Len(calls) = 7
    /\ IsTerminalStatus(published[Len(published)])

(***************************************************************************)
(* An update for a software type without plugin (claim C30).               *)
(***************************************************************************)
\* the handler reaches a software type of the request that no plugin declares
MeetsUnknownSoftwareType ==
    /\ pc = "u_prepare"
    /\ request.update_list[type_idx].plugin_type \notin {"apt", "snap"}

\* C30: when an update request names a software type without plugin, no plugin
\* command is run for that type and the failure is an error of the request:
\* the agent does not panic.
C30_UnknownTypeFailsTheRequest ==
    [][MeetsUnknownSoftwareType
       => /\ pc' # "panicked"
          /\ \A i \in DOMAIN calls' :
                calls'[i].plugin # request.update_list[type_idx].plugin_type]_vars

(***************************************************************************)
(* A journal without live operation (claim C31).                           *)
(***************************************************************************)
\* the journal file cannot be loaded, or lacks the id or the kind
NoLiveOperation ==
    \/ ~journal.readable
    \/ ~journal.state.operation_id.some
    \/ ~journal.state.operation.some

\* C31: when the journal file cannot be loaded or lacks the id or the kind,
\* check_state_store publishes nothing and the agent goes on to publish its
\* capabilities and to take requests (or is killed): it does not stop on its own.
C31_NoLiveOperationIsSilent ==
    [][(pc = "check_state_store" /\ NoLiveOperation)
       => /\ published' = <<>>
          /\ pc' \in {"publish_capabilities", "down"}]_vars

C31_Witness ==
    /\ pc = "idle"
    /\ ~journal.readable
    /\ Len(published) = 2
    /\ published[1].kind = "text"

(***************************************************************************)
(* The mapper and a failing output channel (claim C32).                    *)
(***************************************************************************)
\* process_message: let _ = self.output.send(..).await when the receiver of the
\* channel is gone: the send returns an error, which is dropped, and the loop on
\* the messages to send goes on
SendFails ==
    /\ phase \in {"window", "flush", "post"}
    /\ step = "send"
    /\ output_closed' = TRUE
    /\ converted_messages' = Tail(converted_messages)
    /\ step' = IF converted_messages' = <<>> THEN "next" ELSE "send"
    /\ current' = IF step' = "next" THEN NoCurrent ELSE current
    /\ UNCHANGED <<phase, output, taken, serial, sync_queue, flushes, ended_by>>
    /\ UNCHANGED <<converter_vars, agent_vars, cert_vars>>

\* The mapper with an output channel that may fail.
BusNext ==
    \/ MapperNext
    \/ SendFails

BusSpec == Init /\ [][BusNext]_vars

\* C32: once a send on the output channel has failed, no further message is
\* taken from the input and none is passed to the converter.
C32_BusErrorEndsLoop ==
    [][output_closed => (taken' = taken /\ step' # "convert")]_vars

(***************************************************************************)
(* The command line of a removal (claim C33).                              *)
(***************************************************************************)
\* C33: every removal the agent has run was invoked as `remove <name>
\* [version]`, and the plugin parses that command line as the removal of the
\* module.
C33_RemoveMatchesPluginCli ==
    \A i \in DOMAIN calls :
        calls[i].command = "remove"
        => /\ calls[i].args[1] = "remove"
           /\ calls[i].args[2] = calls[i].module
           /\ PluginOp_from_args(calls[i].args).kind = "ok"
           /\ PluginOp_from_args(calls[i].args).operation = "remove"
           /\ PluginOp_from_args(calls[i].args).module = calls[i].module

(***************************************************************************)
(* tedge cert create and tedge cert remove (claim C34).                    *)
(***************************************************************************)
MAX_CN_SIZE == 64

CertIds == {"my-device-id", ""}

\* what may go wrong besides the files: the generation of the certificate, a
\* write to one of the two files, the update of the configuration
CertFailures == {"none", "generate", "write_cert", "write_key", "config"}

\* the file systems a command may find
CertFileSystems ==
    {fs \in [CertPaths -> {Absent, FileOf("some cert content", "644"),
                           FileOf("some key content", "644")}] :
        fs["/non/existent/cert/path"] = Absent}

check_identifier(id) ==
    IF id = "" THEN err("EmptyName")
    ELSE IF Len(id) > MAX_CN_SIZE THEN err("TooLongName")
    ELSE ok(<<>>)

\* paths::validate_parent_dir_exists
validate_parent_dir_exists(path) == ~starts_with(path, "/non/existent")

\* create_new_file creating the file or truncating the one that exists
create_new_file_truncating(files_, path) ==
    [kind |-> "ok", files |-> [files_ EXCEPT ![path] = FileOf("", "644")]]

\* create_new_file: OpenOptions::new().write(true).create_new(true).open(path)
create_new_file(files_, path) ==
    IF files_[path].exists THEN err("AlreadyExists")
    ELSE [kind |-> "ok", files |-> [files_ EXCEPT ![path] = FileOf("", "644")]]

\* CreateCertCmd::create_test_certificate: [files, res]
create_test_certificate(files_, id, cert_path, key_path, fail) ==
    IF check_identifier(id).kind = "err"
    THEN [files |-> files_, res |-> check_identifier(id)]
    ELSE IF ~validate_parent_dir_exists(cert_path)
    THEN [files |-> files_, res |-> err("CertPathError")]
    ELSE IF ~validate_parent_dir_exists(key_path)
    THEN [files |-> files_, res |-> err("KeyPathError")]
    ELSE LET cert_file == create_new_file(files_, cert_path) IN
    IF cert_file.kind = "err"
    THEN [files |-> files_, res |-> err("CertificateAlreadyExists")]
    ELSE LET key_file == create_new_file(cert_file.files, key_path) IN
    IF key_file.kind = "err"
    THEN [files |-> cert_file.files, res |-> err("KeyAlreadyExists")]
    ELSE IF fail = "generate"
    THEN [files |-> key_file.files, res |-> err("RcgenError")]
    ELSE IF fail = "write_cert"
    THEN [files |-> key_file.files, res |-> err("IoError")]
    ELSE LET written == [key_file.files EXCEPT
                            ![cert_path] = FileOf("CERTIFICATE " \o id, "444")]
         IN
    IF fail = "write_key"
    THEN [files |-> [written EXCEPT ![key_path] = FileOf("", "600")],
          res |-> err("IoError")]
    ELSE [files |-> [written EXCEPT ![key_path] = FileOf("PRIVATE KEY", "400")],
          res |-> ok(<<>>)]

\* impl Command for CreateCertCmd: execute
CreateCertExecute(id, cert_path, key_path, fail) ==
    /\ LET r == create_test_certificate(files, id, cert_path, key_path, fail) IN
       /\ files' = r.files
       /\ cert_cmd' = [op |-> "create", id |-> id, cert_path |-> cert_path,
                       key_path |-> key_path, pre |-> files,
                       res |-> IF r.res.kind = "ok" /\ fail = "config"
                               THEN err("ConfigError") ELSE r.res]
    /\ UNCHANGED <<converter_vars, agent_vars, mapper_vars>>

\* impl Command for RemoveCertCmd: execute
RemoveCertExecute(cert_path, key_path, fail) ==
    /\ files' = [files EXCEPT ![cert_path] = Absent, ![key_path] = Absent]
    /\ cert_cmd' = [op |-> "remove", id |-> "", cert_path |-> cert_path,
                    key_path |-> key_path, pre |-> files,
                    res |-> IF fail = "config" THEN err("ConfigError")
                            ELSE ok(<<>>)]
    /\ UNCHANGED <<converter_vars, agent_vars, mapper_vars>>

CertInit ==
    /\ ConverterNew
    /\ AgentDown
    /\ MapperNew
    /\ journal = AgentStateRepository_clear
    /\ files \in CertFileSystems
    /\ cert_cmd = NoCertCmd

CertNext ==
    \/ \E id \in CertIds, cert_path \in CertPaths, key_path \in CertPaths,
          fail \in CertFailures : CreateCertExecute(id, cert_path, key_path, fail)
    \/ \E cert_path \in CertPaths, key_path \in CertPaths, fail \in {"none", "config"} :
          RemoveCertExecute(cert_path, key_path, fail)

CertSpec == CertInit /\ [][CertNext]_vars

\* C34: when the certificate file or the key file exists before CreateCertCmd
\* is executed, the command fails and every file that existed before it has
\* the content and the permissions it had.
C34_CreateNeverOverwrites ==
    (/\ cert_cmd.op = "create"
     /\ \/ cert_cmd.pre[cert_cmd.cert_path].exists
        \/ cert_cmd.pre[cert_cmd.key_path].exists)
    => /\ cert_cmd.res.kind = "err"
       /\ \A path \in CertPaths :
             cert_cmd.pre[path].exists => files[path] = cert_cmd.pre[path]

\* the key existed and the certificate did not: the command failed after it
\* had created the certificate file, and the key is untouched
C34_Witness ==
    /\ cert_cmd.op = "create"
    /\ cert_cmd.cert_path = "/tmp/a/cert.pem"
    /\ cert_cmd.key_path = "/tmp/a/key.pem"
    /\ ~cert_cmd.pre["/tmp/a/cert.pem"].exists
    /\ cert_cmd.pre["/tmp/a/key.pem"].content = "some key content"
    /\ cert_cmd.res.kind = "err"
    /\ files["/tmp/a/cert.pem"].exists
    /\ files["/tmp/a/key.pem"].content = "some key content"

(***************************************************************************)
(* The status of an update without failure (claim C35).                    *)
(***************************************************************************)
\* C35: when the request names at least one software type and every command
\* run for it has succeeded, the response to publish is Successful.
C35_AllSucceededIsSuccessful ==
    (/\ pc = "u_publish"
     /\ request.update_list # <<>>
     /\ \A i \in DOMAIN calls : calls[i].ok)
    => response.status = "Successful"

(***************************************************************************)
(* The terminal status of an update (claim C36).                           *)
(***************************************************************************)
\* the Successful and Failed statuses published for an id by the handler of
\* the update (the Failed of check_state_store set apart)
TerminalStatuses(id) ==
    {i \in DOMAIN published :
        /\ published[i].kind = "status"
        /\ published[i].topic = response_topic_update
        /\ published[i].response.id = id
        /\ published[i].response.status \in {"Successful", "Failed"}
        /\ published[i].response.reason # Some("unfinished operation request")}

\* C36: when the handler of the first update request of the agent has
\* published its response, exactly one Successful or Failed status with the id
\* of the request has been published on the update response topic.
C36_OneTerminalStatus ==
    (pc = "u_clear" /\ nrequests = 1)
    => Cardinality(TerminalStatuses(request.id)) = 1

(***************************************************************************)
(* Statuses across a restart (claim C37).                                  *)
(***************************************************************************)
\* C37: with one request received since the agent was installed, no step
\* publishes the Failed status "unfinished operation request" for an id whose
\* Successful status was published before.
C37_NoFailedAfterSuccessful ==
    [][nrequests = 1
       => \A i \in JustPublished :
             (/\ published'[i].kind = "status"
              /\ published'[i].response.status = "Failed"
              /\ published'[i].response.reason = Some("unfinished operation request"))
             => published'[i].response.id \notin succeeded]_vars

(***************************************************************************)
(* Convergence of the reconciliation (claim C38).  The retained payload of *)
(* a topic is the payload of the last retained message published on it, or *)
(* the empty payload when there is none.  When the mapper starts the       *)
(* broker delivers the retained messages of both topics, so the maps of    *)
(* the reconciler at the flush hold the retained payloads before it.       *)
(***************************************************************************)
\* the payload stored under a key of a map of the reconciler, empty if none
PayloadIn(map, alarm_id) ==
    IF alarm_id \in DOMAIN map THEN map[alarm_id].payload ELSE ""

\* the messages sent on the mirror topic of the key
MirrorOutputs(alarm_id) ==
    {i \in DOMAIN output : output[i].topic = INTERNAL_ALARMS_TOPIC \o alarm_id}

\* the retained payload of the mirror topic of the key after the messages sent
RetainedMirror(alarm_id) ==
    IF MirrorOutputs(alarm_id) = {}
    THEN PayloadIn(last.pre.old_alarms_map, alarm_id)
    ELSE output[CHOOSE i \in MirrorOutputs(alarm_id) :
                    \A j \in MirrorOutputs(alarm_id) : j <= i].payload

\* the retained payload of the local alarm topic of the key
RetainedLocal(alarm_id) ==
    PayloadIn(last.pre.pending_alarms_map, alarm_id)

\* every sync message of the flush has been processed, each conversion has
\* succeeded, and what was returned has been sent
FlushProcessed ==
    /\ phase = "flush"
    /\ sync_queue = <<>>
    /\ ~panicked
    /\ \A i \in DOMAIN output : output[i].topic # "tedge/errors"

RejectsRequest ==
    /\ pc = "idle"
    /\ nrequests' = nrequests + 1
    /\ pc' = "exited"

\* the text of the parse error, on the response topic of a handler
ParseErrorTexts ==
    {TextMessage(t, "Parsing error", FALSE) :
        t \in {response_topic_list, response_topic_update}}

\* C40: when the payload of a list or update request does not parse, the
\* journal is left as it was and nothing is published for the request but the
\* text of the parse error on the response topic: no Executing status, no
\* response.
C40_ParseFailureHasNoEffect ==
    [][RejectsRequest
       => /\ journal' = journal
          /\ \/ published' = published
             \/ \E text \in ParseErrorTexts : published' = Append(published, text)]_vars

C40_Witness ==
    /\ pc = "exited"
    /\ published # <<>>
    /\ published[Len(published)] = TextMessage(response_topic_update, "Parsing error", FALSE)
    /\ journal = AgentStateRepository_clear
====
